---- MODULE Spec2Model ----
(***************************************************************************)
(* A model of the bus-tracker transit reconciliation engine: the schedule  *)
(* resolver (schedule.ts), the realtime ingestion poll (fetchRealtime.ts), *)
(* the on-time-performance endpoint with its daily cache                   *)
(* (onTimePerformance.ts, cacheManager.ts, cachePrewarm.ts) and the        *)
(* importer's version table (gtfsImport.ts).                               *)
(*                                                                         *)
(* Dates are day numbers; day 0 is a Sunday, so the weekday of day d as    *)
(* Date.getDay() reports it is d % 7.                                      *)
(***************************************************************************)
EXTENDS Integers, Sequences, FiniteSets, TLC

VARIABLES
    calendar,        \* table calendar: a set of rows (the table has no key)
    calendar_dates,  \* table calendar_dates: rows, key (gtfs_version, service_id, date)
    svcCall,         \* the last getServiceIds call and what it returned
    gtfs_versions,   \* table gtfs_versions: rows, key version
    verCall,         \* the last getGtfsVersion call and what it returned
    now,             \* the wall clock, in minutes since 00:00 of day 0
    blocks,          \* table blocks (scheduled trips): rows, key (gtfs_version, trip_id)
    stops,           \* table stops (stop times): rows
    vehicles,        \* table vehicles (observations): rows, key (time, id)
    block_data,      \* table block_data (trip starts): rows, key (date, trip_id)
    started,         \* how many fetchRealtime cycles the timer has started
    cycles,          \* the fetchRealtime invocations, by cycle number
    cache,           \* table cache_on_time_daily: rows, key all columns but data
    apiCall,         \* the last endpoint request or pre-warm sweep and its outcome
    cacheTableInitialized, \* the module flag of the cache manager's table setup
    canceled         \* table canceled (cancellations): rows, key (date, trip_id)

schedVars == <<calendar, calendar_dates, svcCall>>
verVars == <<gtfs_versions, verCall>>
pollVars == <<now, blocks, stops, vehicles, block_data, started, cycles>>
otpVars == <<cache, apiCall, cacheTableInitialized, canceled>>
vars == <<schedVars, verVars, pollVars, otpVars>>

\* What the actions of one component leave alone.
exceptSched == <<verVars, pollVars, otpVars>>
exceptVer == <<schedVars, pollVars, otpVars>>
exceptPoll == <<schedVars, verVars, otpVars>>
exceptOtp ==
    <<schedVars, verVars, blocks, stops, block_data, started, cycles,
      cacheTableInitialized, canceled>>

(***************************************************************************)
(* Bounds and input sets                                                   *)
(***************************************************************************)
MaxRows == 3        \* rows of calendar and calendar_dates together
MaxVersion == 3     \* schedule versions imported in the version model
MaxCycles == 2      \* fetchRealtime cycles the timer starts
MaxEntities == 2    \* vehicle entities in one position feed
MaxObservations == 2  \* observations stored in the on-time-performance model

Versions == {1, 2}
Services == {"A", "B"}
Dates == {1, 2}                       \* a Monday and the Tuesday after it
DayPatterns == {{1}, {1, 2, 3, 4, 5}, {2}}  \* Monday only, Monday-Friday, Tuesday only
DateRanges == {<<1, 2>>, <<2, 2>>}
ExceptionTypes == {1, 2}
ImportDates == {1, 2, 3}

NoCall == [called |-> FALSE]

\* The versions an import of the feed model may create.
FeedVersions == 2..3

(***************************************************************************)
(* Schedule resolver: src/src/utils/schedule.ts                            *)
(***************************************************************************)
getDay(date) == date % 7

CalendarRow(v, s, days, range) ==
    [gtfs_version |-> v, service_id |-> s,
     monday    |-> IF 1 \in days THEN 1 ELSE 0,
     tuesday   |-> IF 2 \in days THEN 1 ELSE 0,
     wednesday |-> IF 3 \in days THEN 1 ELSE 0,
     thursday  |-> IF 4 \in days THEN 1 ELSE 0,
     friday    |-> IF 5 \in days THEN 1 ELSE 0,
     saturday  |-> IF 6 \in days THEN 1 ELSE 0,
     sunday    |-> IF 0 \in days THEN 1 ELSE 0,
     start_date |-> range[1], end_date |-> range[2]]

dateToServiceIdQuery(date) ==
    LET day == getDay(date) IN
    [monday    |-> IF day = 1 THEN 1 ELSE 0,
     tuesday   |-> IF day = 2 THEN 1 ELSE 0,
     wednesday |-> IF day = 3 THEN 1 ELSE 0,
     thursday  |-> IF day = 4 THEN 1 ELSE 0,
     friday    |-> IF day = 5 THEN 1 ELSE 0,
     saturday  |-> IF day = 6 THEN 1 ELSE 0,
     sunday    |-> IF day = 0 THEN 1 ELSE 0]

\* The WHERE clause of the calendar query.
CalendarRowSelected(row, query, gtfsVersion, date) ==
    /\ row.monday = query.monday
    /\ row.tuesday = query.tuesday
    /\ row.wednesday = query.wednesday
    /\ row.thursday = query.thursday
    /\ row.friday = query.friday
    /\ row.saturday = query.saturday
    /\ row.sunday = query.sunday
    /\ row.start_date <= date
    /\ row.end_date >= date
    /\ row.gtfs_version = gtfsVersion

\* A variant that lets a removal exception add the service instead.
ApplyExceptionRowNoDelete(ids, row) == ids \cup {row.service_id}

\* One iteration of the loop over the calendar_dates rows.
ApplyExceptionRow(ids, row) ==
    IF row.exception_type = 1
    THEN ids \cup {row.service_id}
    ELSE ids \ {row.service_id}

RECURSIVE ApplyExceptions(_, _)
ApplyExceptions(ids, rows) ==
    IF rows = {} THEN ids
    ELSE LET row == CHOOSE r \in rows : TRUE
         IN ApplyExceptions(ApplyExceptionRow(ids, row), rows \ {row})

getServiceIds(gtfsVersion, date) ==
    LET query == dateToServiceIdQuery(date)
        serviceIds == {row \in calendar : CalendarRowSelected(row, query, gtfsVersion, date)}
        serviceIdsExceptions ==
            {row \in calendar_dates : row.date = date /\ row.gtfs_version = gtfsVersion}
        initialServiceIds == {row.service_id : row \in serviceIds}
    IN ApplyExceptions(initialServiceIds, serviceIdsExceptions)

(***************************************************************************)
(* Importer inserts: src/src/utils/gtfsImport.ts                           *)
(***************************************************************************)
RowCount == Cardinality(calendar) + Cardinality(calendar_dates)

\* INSERT INTO calendar: the table has no key, every line of calendar.txt lands.
ImportCalendarLine(v, s, days, range) ==
    /\ RowCount < MaxRows
    /\ CalendarRow(v, s, days, range) \notin calendar
    /\ calendar' = calendar \cup {CalendarRow(v, s, days, range)}
    /\ svcCall' = NoCall
    /\ UNCHANGED <<calendar_dates, exceptSched>>

\* INSERT INTO calendar_dates: rejected by the primary key when the
\* (gtfs_version, service_id, date) row exists.
ImportCalendarDatesLine(v, s, d, t) ==
    /\ RowCount < MaxRows
    /\ ~ \E row \in calendar_dates :
           row.gtfs_version = v /\ row.service_id = s /\ row.date = d
    /\ calendar_dates' = calendar_dates \cup
           {[gtfs_version |-> v, service_id |-> s, date |-> d, exception_type |-> t]}
    /\ svcCall' = NoCall
    /\ UNCHANGED <<calendar, exceptSched>>

CallGetServiceIds(v, d) ==
    /\ svcCall' = [called |-> TRUE, gtfsVersion |-> v, date |-> d,
                   result |-> getServiceIds(v, d)]
    /\ UNCHANGED <<calendar, calendar_dates, exceptSched>>

(***************************************************************************)
(* Version table: importGtfs' first statements and getGtfsVersion          *)
(***************************************************************************)
LastVersion == IF gtfs_versions = {} THEN 0
               ELSE CHOOSE v \in {r.version : r \in gtfs_versions} :
                        \A r \in gtfs_versions : r.version <= v

ImportGtfs(date) ==
    LET gtfsVersion == IF gtfs_versions # {} THEN LastVersion + 1 ELSE 1 IN
    /\ gtfsVersion <= MaxVersion
    /\ gtfs_versions' = gtfs_versions \cup {[version |-> gtfsVersion, import_date |-> date]}
    /\ verCall' = NoCall
    /\ UNCHANGED exceptVer

\* SELECT version FROM gtfs_versions WHERE import_date <= date
\* ORDER BY import_date DESC LIMIT 1: any row with the greatest import date.
getGtfsVersionRows(date) ==
    LET eligible == {r \in gtfs_versions : r.import_date <= date}
    IN {r \in eligible : \A o \in eligible : o.import_date <= r.import_date}

\* result[0]?.version
VersionResult(rows) ==
    IF rows = {} THEN {[defined |-> FALSE, version |-> 0]}
    ELSE {[defined |-> TRUE, version |-> r.version] : r \in rows}

CallGetGtfsVersion(date) ==
    /\ \E res \in VersionResult(getGtfsVersionRows(date)) :
          verCall' = [called |-> TRUE, date |-> date, result |-> res]
    /\ UNCHANGED <<gtfs_versions, exceptVer>>

(***************************************************************************)
(* Realtime ingestion: src/src/utils/fetchRealtime.ts                      *)
(*                                                                         *)
(* Nullable text (trip id, stop id) is "" when absent, which JavaScript    *)
(* treats as falsy like null; a nullable number is <<>> or <<n>>.          *)
(* A time string "HH:MM:SS" is the triple <<HH, MM, SS>>; instants are     *)
(* whole minutes, so SS is 0.                                              *)
(***************************************************************************)
NULL == <<>>
Some(n) == <<n>>

MinutesPerDay == 24 * 60
getDate(t) == t \div MinutesPerDay          \* Date.getDate(): the calendar day
getHours(t) == (t % MinutesPerDay) \div 60
getMinutes(t) == t % 60
DateAt(day) == day * MinutesPerDay          \* new Date(year, month, day)

\* parseInt on the ids the feeds carry.
parseInt(text) ==
    CASE text = "101" -> 101
      [] text = "102" -> 102
      [] text = "103" -> 103
      [] text = "-7"  -> -7
      [] text = "10"  -> 10
      [] text = "900" -> 900
      [] OTHER -> 0

getCurrentDate ==
    DateAt(IF getHours(now) < 3 THEN getDate(now) - 1 ELSE getDate(now))

\* startDateToDate(startDate): the feed's YYYYMMDD as a local midnight.
startDateToDate(startDate) == DateAt(startDate)

timestampToTimeString(date, timestamp) ==
    LET hours == getHours(timestamp) IN
    <<IF getDate(date) # getDate(now) THEN hours + 24 ELSE hours,
      getMinutes(timestamp), 0>>

timeToMinutes(time) == time[1] * 60 + time[2] + time[3] \div 60

\* getServiceIds(date) as fetchRealtime calls it: without a version filter.
getServiceIdsAnyVersion(date) ==
    LET day == getDate(date)
        query == dateToServiceIdQuery(day)
        serviceIds == {row \in calendar :
                          CalendarRowSelected(row, query, row.gtfs_version, day)}
        serviceIdsExceptions == {row \in calendar_dates : row.date = day}
    IN ApplyExceptions({row.service_id : row \in serviceIds}, serviceIdsExceptions)

\* A variant without the ORDER BY: a row of any version may come first.
LatestVersionRowsUnordered(rows) == rows

\* The rows of a set with the greatest gtfs_version (ORDER BY gtfs_version DESC).
LatestVersionRows(rows) ==
    {r \in rows : \A o \in rows : o.gtfs_version <= r.gtfs_version}

getRealTripId(serviceIds, recievedTripId, routeId, startTime) ==
    LET intTripId == parseInt(recievedTripId)
        trip == LatestVersionRows({b \in blocks :
                    /\ b.route_id = routeId
                    /\ b.start_time = startTime
                    /\ b.service_id \in serviceIds})
    IN IF intTripId > 0 \/ intTripId > 1000000000 THEN {recievedTripId}
       ELSE IF trip # {} THEN {b.trip_id : b \in trip}
       ELSE {recievedTripId}

\* The first entity of the trip feed that the loop of getDelayInfo returns on.
RECURSIVE FirstMatch(_, _)
FirstMatch(tripFeed, recievedTripId) ==
    IF tripFeed = <<>> THEN <<>>
    ELSE IF Head(tripFeed).tripId # "" /\ Head(tripFeed).tripId = recievedTripId
         THEN <<Head(tripFeed)>>
         ELSE FirstMatch(Tail(tripFeed), recievedTripId)

NoDelayInfo == [found |-> FALSE, delay |-> 0, nextStopId |-> ""]

getDelayInfo(tripFeed, date, recievedTripId, tripId) ==
    LET match == FirstMatch(tripFeed, recievedTripId) IN
    IF match = <<>> THEN NoDelayInfo
    ELSE LET stu == match[1].stopTimeUpdate
             predictedStopTime == IF stu = <<>> THEN 0 ELSE stu[1].arrivalTime
             stopId == IF stu = <<>> THEN "" ELSE stu[1].stopId
             stopSequence == IF stu = <<>> THEN 0 ELSE stu[1].stopSequence
             scheduledTime == LatestVersionRows({r \in stops :
                                  /\ r.trip_id = tripId
                                  /\ r.stop_id = stopId
                                  /\ r.stop_sequence = stopSequence})
         IN IF stopId = "" \/ stopSequence = 0 \/ predictedStopTime = 0
            THEN NoDelayInfo
            ELSE IF scheduledTime # {}
                 THEN LET row == CHOOSE r \in scheduledTime : TRUE IN
                      [found |-> TRUE,
                       delay |-> timeToMinutes(timestampToTimeString(date, predictedStopTime))
                                 - timeToMinutes(row.arrival_time),
                       nextStopId |-> stopId]
                 ELSE NoDelayInfo

\* delayInfo?.delay || null
DelayOrNull(delayInfo) ==
    IF ~delayInfo.found \/ delayInfo.delay = 0 THEN NULL ELSE Some(delayInfo.delay)

\* delayInfo?.nextStopId || null
NextStopOrNull(delayInfo) ==
    IF ~delayInfo.found THEN "" ELSE delayInfo.nextStopId

IdleCycle == [pc |-> "idle"]

\* What the loop body computes for one vehicle entity before it launches the
\* entity's writes (lines 39-49).
LaunchedWrite(entity, time, tripFeed, tripId) ==
    LET recievedTripId == entity.tripId
        date == IF entity.hasTrip THEN startDateToDate(entity.startDate)
                ELSE getCurrentDate
        delayInfo == IF recievedTripId # "" /\ tripId # ""
                     THEN getDelayInfo(tripFeed, date, recievedTripId, tripId)
                     ELSE NoDelayInfo
    IN [stage |-> "insertVehicle",
        recievedTripId |-> recievedTripId,
        row |-> [time |-> time, id |-> entity.busId, trip_id |-> tripId,
                 delay_min |-> DelayOrNull(delayInfo),
                 recorded_timestamp |-> timestampToTimeString(date, entity.timestamp),
                 next_stop_id |-> NextStopOrNull(delayInfo)],
        date |-> date,
        routeId |-> entity.routeId,
        scheduledStartTime |-> entity.startTime]

\* The date and the recorded time the loop body computes for an entity of
\* the position feed (lines 45-46).
CallTimestampToTimeString(hasTrip, startDate, timestamp) ==
    /\ apiCall = NoCall
    /\ apiCall' = [called |-> TRUE, op |-> "timestampToTimeString",
                   hasTrip |-> hasTrip,
                   date |-> IF hasTrip THEN startDateToDate(startDate)
                            ELSE getCurrentDate,
                   timestamp |-> timestamp,
                   result |-> timestampToTimeString(
                                  IF hasTrip THEN startDateToDate(startDate)
                                  ELSE getCurrentDate, timestamp)]
    /\ UNCHANGED <<now, vehicles, cache, exceptOtp>>

(***************************************************************************)
(* The trip detail of a block: blockDetails.ts, lines 130-156               *)
(*                                                                         *)
(* A row of the query carries the next_stop_id of the bus's latest         *)
(* observation ("" for null), the recorded time of its latest observation  *)
(* with a next stop as actual_end_time, the trip's end_time and the        *)
(* arrival at its second last stop. Times are <<hours, minutes, seconds>>. *)
(***************************************************************************)
\* timeStringDiff: the difference of two time strings in seconds.
timeStringDiff(timeString1, timeString2) ==
    (timeString1[1] - timeString2[1]) * 60 * 60
        + (timeString1[2] - timeString2[2]) * 60
        + (timeString1[3] - timeString2[3])

\* The mapping of one row (lines 130-141): currentDate.toLocaleTimeString()
\* is the clock's time of day in 24-hour form, toLocaleDateString() the
\* calendar date; a comparison with a null actual_end_time is false; the
\* time between the last two stops is added with addToTimeString.
tripDetail(v, date) ==
    LET isTripOver ==
            \/ v.next_stop_id = ""
            \/ v.actual_end_time # NULL
                  /\ timeStringDiff(<<getHours(now), getMinutes(now), 0>>,
                                    v.actual_end_time) > 60 * 30
            \/ getDate(date) # getDate(now)
        ended == v.actual_end_time # NULL /\ isTripOver
        extraTime == IF v.second_last_stop_time # NULL /\ v.end_time # NULL
                     THEN timeStringDiff(v.end_time, v.second_last_stop_time)
                     ELSE 0
        second == IF ended THEN v.actual_end_time[3] + extraTime ELSE 0
        minute == IF ended
                  THEN v.actual_end_time[2] + (IF second >= 60 THEN second \div 60 ELSE 0)
                  ELSE 0
        hour == IF ended
                THEN v.actual_end_time[1] + (IF minute >= 60 THEN minute \div 60 ELSE 0)
                ELSE 0
    IN [isTripOver |-> isTripOver,
        actualEndTime |->
            IF ~ended THEN NULL
            ELSE <<hour, IF minute >= 60 THEN minute % 60 ELSE minute,
                   IF second >= 60 THEN second % 60 ELSE second>>]

\* One row of getBlockData for the service day date, mapped at the time now.
CallTripDetail(v, date) ==
    /\ apiCall = NoCall
    /\ apiCall' = [called |-> TRUE, op |-> "tripDetail", row |-> v,
                   date |-> date, detail |-> tripDetail(v, date)]
    /\ UNCHANGED <<now, vehicles, cache, exceptOtp>>

Settled(promise) == promise.stage \in {"done", "rejected"}

\* The primary key of vehicles and of block_data.
VehiclesKeyFree(row) ==
    ~ \E r \in vehicles : r.time = row.time /\ r.id = row.id

\* A table without its key accepts every row.
BlockDataKeyFreeNoKey(date, tripId) == TRUE

BlockDataKeyFree(date, tripId) ==
    ~ \E r \in block_data : r.date = date /\ r.trip_id = tripId

\* The scheduler's callback (index.ts): every minute, whatever earlier
\* invocations are doing.
TimerFires ==
    /\ started < MaxCycles
    /\ started' = started + 1
    /\ now' = now + 1
    /\ cycles' = [cycles EXCEPT ![started + 1] = [pc |-> "fetching"]]
    /\ UNCHANGED <<blocks, stops, vehicles, block_data, exceptPoll>>

\* A variant that goes on unless both responses failed.
ResponsesRejectedBothOnly(okPositions, okTrips) == ~okPositions /\ ~okTrips

\* if (!responses[0].ok || !responses[1].ok) throw
ResponsesRejected(okPositions, okTrips) == ~okPositions \/ ~okTrips

\* Both fetches have answered: the ok check, the decode, time = new Date()
\* and the service ids of the current date. size is the number of vehicle
\* entities the position feed holds; the loop reveals them one by one.
FetchSettles(c, okPositions, okTrips, size, tripFeed) ==
    /\ cycles[c].pc = "fetching"
    /\ cycles' = [cycles EXCEPT ![c] =
          IF ResponsesRejected(okPositions, okTrips)
          THEN [pc |-> "rejected", ok |-> <<okPositions, okTrips>>,
                promises |-> <<>>, size |-> size, tripFeed |-> <<>>, time |-> c]
          ELSE [pc |-> "loop", ok |-> <<okPositions, okTrips>>,
                promises |-> <<>>, size |-> size, tripFeed |-> tripFeed, time |-> c]]
    /\ UNCHANGED <<now, blocks, stops, vehicles, block_data, started, exceptPoll>>

\* One iteration of the loop over positionsFeed.entity: the entity's trip id,
\* delay and row are computed and its writes are launched.
ProcessEntity(c, entity) ==
    /\ cycles[c].pc = "loop"
    /\ Len(cycles[c].promises) < cycles[c].size
    /\ LET serviceIds == getServiceIdsAnyVersion(getCurrentDate)
       IN \E tripId \in (IF entity.tripId # ""
                         THEN getRealTripId(serviceIds, entity.tripId,
                                            entity.routeId, entity.startTime)
                         ELSE {""}) :
            cycles' = [cycles EXCEPT ![c].promises = Append(@,
                LaunchedWrite(entity, cycles[c].time, cycles[c].tripFeed, tripId))]
    /\ UNCHANGED <<now, blocks, stops, vehicles, block_data, started, exceptPoll>>

\* The loop is over: the function goes on to await Promise.all(promises).
LoopEnds(c) ==
    /\ cycles[c].pc = "loop"
    /\ Len(cycles[c].promises) = cycles[c].size
    /\ cycles' = [cycles EXCEPT ![c].pc = "awaiting"]
    /\ UNCHANGED <<now, blocks, stops, vehicles, block_data, started, exceptPoll>>

\* INSERT INTO vehicles settles, then the check whether a trip start is due.
InsertVehicleSettles(c, k) ==
    /\ cycles[c].pc \in {"loop", "awaiting", "rejected"}
    /\ k \in DOMAIN cycles[c].promises
    /\ cycles[c].promises[k].stage = "insertVehicle"
    /\ LET p == cycles[c].promises[k] IN
       IF VehiclesKeyFree(p.row)
       THEN /\ vehicles' = vehicles \cup {p.row}
            /\ cycles' = [cycles EXCEPT ![c].promises[k].stage =
                  IF p.row.trip_id # "" /\ parseInt(p.routeId) < 800
                  THEN "selectExisting" ELSE "done"]
       ELSE /\ vehicles' = vehicles
            /\ cycles' = [cycles EXCEPT ![c].promises[k].stage = "rejected"]
    /\ UNCHANGED <<now, blocks, stops, block_data, started, exceptPoll>>

\* SELECT * from block_data settles; without a row, the lookup of the trip's
\* block in blocks (a table this component never writes) follows.
SelectExistingSettles(c, k) ==
    /\ cycles[c].pc \in {"loop", "awaiting", "rejected"}
    /\ k \in DOMAIN cycles[c].promises
    /\ cycles[c].promises[k].stage = "selectExisting"
    /\ LET p == cycles[c].promises[k]
           existingTrip == {r \in block_data :
                               r.date = p.date /\ r.trip_id = p.row.trip_id}
           blockData == LatestVersionRows({b \in blocks : b.trip_id = p.row.trip_id})
       IN cycles' = [cycles EXCEPT ![c].promises[k].stage =
             IF existingTrip # {} \/ blockData = {} THEN "done" ELSE "insertBlockData"]
    /\ UNCHANGED <<now, blocks, stops, vehicles, block_data, started, exceptPoll>>

\* INSERT INTO block_data settles.
InsertBlockDataSettles(c, k) ==
    /\ cycles[c].pc \in {"loop", "awaiting", "rejected"}
    /\ k \in DOMAIN cycles[c].promises
    /\ cycles[c].promises[k].stage = "insertBlockData"
    /\ LET p == cycles[c].promises[k]
           blockData == CHOOSE b \in LatestVersionRows(
                            {b \in blocks : b.trip_id = p.row.trip_id}) : TRUE
       IN IF BlockDataKeyFree(p.date, p.row.trip_id)
          THEN /\ block_data' = block_data \cup
                     {[date |-> p.date, trip_id |-> p.row.trip_id,
                       block_id |-> blockData.block_id, bus_id |-> p.row.id,
                       route_id |-> blockData.route_id,
                       route_direction |-> blockData.route_direction,
                       start_time |-> p.row.recorded_timestamp,
                       scheduled_start_time |-> p.scheduledStartTime]}
               /\ cycles' = [cycles EXCEPT ![c].promises[k].stage = "done"]
          ELSE /\ block_data' = block_data
               /\ cycles' = [cycles EXCEPT ![c].promises[k].stage = "rejected"]
    /\ UNCHANGED <<now, blocks, stops, vehicles, started, exceptPoll>>

\* await Promise.all(promises): rejects with the first rejection, resolves
\* when every promise has.
PromiseAllSettles(c) ==
    /\ cycles[c].pc = "awaiting"
    /\ LET ps == cycles[c].promises
           anyRejected == \E k \in DOMAIN ps : ps[k].stage = "rejected"
           allDone == \A k \in DOMAIN ps : ps[k].stage = "done"
       IN /\ anyRejected \/ allDone
          /\ cycles' = [cycles EXCEPT ![c].pc =
                IF anyRejected THEN "rejected" ELSE "resolved"]
    /\ UNCHANGED <<now, blocks, stops, vehicles, block_data, started, exceptPoll>>

(***************************************************************************)
(* Inputs of the ingestion model                                           *)
(***************************************************************************)
Buses == {"b1", "b2"}
\* The day the polls run on: the Monday of the second week.
PollDay == CHOOSE d \in 8..14 : getDay(d) = 1
PollStart == DateAt(PollDay) + 10 * 60
ScheduledArrival == <<10, 5, 0>>

PollCalendar == {CalendarRow(1, "A", {1}, <<1, 14>>)}
PollBlocks ==
    {[gtfs_version |-> 1, trip_id |-> "101", route_id |-> "10", service_id |-> "A",
      block_id |-> "B1", route_direction |-> 0, start_time |-> <<10, 0, 0>>],
     [gtfs_version |-> 1, trip_id |-> "102", route_id |-> "900", service_id |-> "A",
      block_id |-> "B2", route_direction |-> 0, start_time |-> <<10, 0, 0>>]}
PollStops ==
    {[gtfs_version |-> 1, trip_id |-> "101", stop_id |-> "S1", stop_sequence |-> 1,
      arrival_time |-> ScheduledArrival]}

\* A vehicle entity with an id and a position; its trip descriptor, when it
\* has one, names the trip, its route, start time and start date.
NoTripEntity(bus) ==
    [busId |-> bus, hasTrip |-> FALSE, tripId |-> "", routeId |-> "900",
     startTime |-> <<0, 0, 0>>, startDate |-> PollDay, timestamp |-> PollStart]
TripEntity(bus, tripId, routeId) ==
    [busId |-> bus, hasTrip |-> TRUE, tripId |-> tripId, routeId |-> routeId,
     startTime |-> <<10, 0, 0>>, startDate |-> PollDay, timestamp |-> PollStart]

SeqsUpTo(S, n) == UNION {[1..k -> S] : k \in 0..n}

PollEntities ==
    {NoTripEntity("b1"), TripEntity("b1", "102", "900")}
    \cup {TripEntity(b, "101", "10") : b \in Buses}

DelayEntities ==
    {TripEntity("b1", "101", "10"), TripEntity("b1", "-7", "10"),
     TripEntity("b1", "103", "10")}
PredictedTimes == {DateAt(PollDay) + 10 * 60 + m : m \in {4, 5, 6}}
StopTimeUpdates ==
    {<<>>, <<[stopId |-> "S9", stopSequence |-> 1, arrivalTime |-> PollStart]>>}
    \cup {<<[stopId |-> "S1", stopSequence |-> 1, arrivalTime |-> a]>> :
              a \in PredictedTimes}
TripUpdates ==
    {[tripId |-> "101", stopTimeUpdate |-> u] : u \in StopTimeUpdates}
    \cup {[tripId |-> "-7", stopTimeUpdate |->
             <<[stopId |-> "S1", stopSequence |-> 1, arrivalTime |-> PollStart]>>]}
DelayTripFeeds == SeqsUpTo(TripUpdates, 1)

(***************************************************************************)
(* Trip-id resolution against an imported schedule                         *)
(***************************************************************************)
TripVersions == {1, 2}
TripIds == {"101", "103"}
TripStartTimes == {<<10, 0, 0>>, <<11, 0, 0>>}
ReceivedTripIds == {"101", "-7"}

\* importGtfs, one trip: its line of trips.txt and the start time that its
\* stop_times.txt lines give it; (gtfs_version, trip_id) is the table's key.
ImportTrip(gtfsVersion, tripId, serviceId, startTime) ==
    /\ ~ \E b \in blocks : b.gtfs_version = gtfsVersion /\ b.trip_id = tripId
    /\ blocks' = blocks \cup
          {[gtfs_version |-> gtfsVersion, trip_id |-> tripId, route_id |-> "10",
            service_id |-> serviceId, block_id |-> "B1", route_direction |-> 0,
            start_time |-> startTime]}
    /\ UNCHANGED <<now, stops, vehicles, block_data, started, cycles, exceptPoll>>

\* importGtfs, a whole feed: the next version number and its gtfs_versions
\* row, the line of calendar_dates.txt, the lines of trips.txt into blocks
\* (without times), and the loop over the lines of stop_times.txt. Every
\* line is inserted into stops; a line of another trip than lastTripData's
\* issues the UPDATE of lastTripData's trip, and lastTripData then starts
\* again from the line or takes its departure as endTime. After the loop
\* the promises are awaited and nothing more is written. The UPDATEs run
\* concurrently: of several for one row any may be the last.
importGtfs(date, feedTrips, stopTimes) ==
    LET gtfsVersion == IF gtfs_versions # {} THEN LastVersion + 1 ELSE 1
        inserted ==
            {[gtfs_version |-> gtfsVersion, trip_id |-> t.trip_id, route_id |-> t.route_id,
              service_id |-> t.service_id, block_id |-> t.block_id,
              route_direction |-> t.route_direction,
              start_time |-> NULL, end_time |-> NULL] : t \in feedTrips}
        RECURSIVE Issued(_, _, _)
        Issued(i, lastTripData, promises) ==
            IF i > Len(stopTimes) THEN promises
            ELSE LET tripId == stopTimes[i].trip_id
                     departureTime == stopTimes[i].departure_time
                     writes == lastTripData # NULL /\ lastTripData[1].tripId # tripId
                     kept == IF writes THEN NULL ELSE lastTripData
                 IN Issued(i + 1,
                           IF kept = NULL
                           THEN Some([tripId |-> tripId, startTime |-> departureTime,
                                      endTime |-> departureTime])
                           ELSE Some([kept[1] EXCEPT !.endTime = departureTime]),
                           IF writes THEN Append(promises, lastTripData[1])
                           ELSE promises)
        updates == Issued(1, NULL, <<>>)
        updated == {updates[i].tripId : i \in 1..Len(updates)}
    IN /\ gtfsVersion \in FeedVersions
       /\ gtfs_versions' = gtfs_versions \cup
             {[version |-> gtfsVersion, import_date |-> date]}
       /\ calendar_dates' = calendar_dates \cup
             {[gtfs_version |-> gtfsVersion, service_id |-> "A", date |-> date,
               exception_type |-> 1]}
       /\ stops' = stops \cup
             {[gtfs_version |-> gtfsVersion, trip_id |-> stopTimes[i].trip_id,
               stop_id |-> stopTimes[i].stop_id,
               arrival_time |-> stopTimes[i].departure_time,
               departure_time |-> stopTimes[i].departure_time,
               stop_sequence |-> stopTimes[i].stop_sequence] :
                 i \in 1..Len(stopTimes)}
       /\ \E last \in [updated -> 1..Len(updates)] :
             /\ \A t \in updated : updates[last[t]].tripId = t
             /\ blocks' = blocks \cup
                   {IF b.trip_id \in updated
                    THEN [b EXCEPT !.start_time = updates[last[b.trip_id]].startTime,
                                   !.end_time = updates[last[b.trip_id]].endTime]
                    ELSE b : b \in inserted}
       /\ UNCHANGED <<calendar, svcCall, verCall, now, vehicles, block_data, started,
                      cycles, otpVars>>

\* One call of getRealTripId, as the loop of fetchRealtime makes it.
CallGetRealTripId(serviceIds, recievedTripId, routeId, startTime) ==
    /\ \E result \in getRealTripId(serviceIds, recievedTripId, routeId, startTime) :
          apiCall' = [called |-> TRUE, op |-> "getRealTripId",
                      serviceIds |-> serviceIds, recievedTripId |-> recievedTripId,
                      routeId |-> routeId, startTime |-> startTime,
                      result |-> result]
    /\ UNCHANGED <<schedVars, verVars, pollVars, cache, cacheTableInitialized, canceled>>

(***************************************************************************)
(* On-time performance and its daily cache: onTimePerformance.ts,          *)
(* cacheManager.ts, cachePrewarm.ts; blockCancelCount.ts                   *)
(*                                                                         *)
(* A service date is the local midnight of its day, DateAt(day). The       *)
(* canceled table is empty throughout, so no trip counts as canceled.      *)
(***************************************************************************)
toDateString(date) == getDate(date)

getDateFromTimestamp(time) ==
    DateAt(IF getHours(time) < 3 THEN getDate(time) - 1 ELSE getDate(time))

getServiceDayBoundariesWithPadding(date) ==
    [start |-> date + 3 * 60, end |-> date + 29 * 60]

\* getGtfsVersion(date) as the endpoints use its result. (The version model
\* explores rows of equal import date; here no two rows share one.)
getGtfsVersion(date) ==
    CHOOSE res \in VersionResult(getGtfsVersionRows(toDateString(date))) : TRUE

isCurrentServiceDay(date) ==
    /\ toDateString(date) = toDateString(getDateFromTimestamp(now))
    /\ getHours(now) > 4

\* A string parameter that is null.
NoString == "<null>"

\* The days back a walk over earlier days is followed for.
WalkDays == 1..14

\* value || '' : null and the empty string both give the empty string.
OrEmpty(value) == IF value = NoString \/ value = "" THEN "" ELSE value

\* The key columns as both functions fill them: dateStr, filterStr, idStr.
CacheKey(serviceDate, metric, thresholdMinutes, includeCanceled, frequencyFilter, routeId) ==
    [service_date |-> toDateString(serviceDate), metric |-> metric,
     threshold_minutes |-> thresholdMinutes, include_canceled |-> includeCanceled,
     frequency_filter |-> OrEmpty(frequencyFilter), route_id |-> OrEmpty(routeId)]

\* The data of the row with the key, as a set: empty or one element.
getCachedDailyStats(table, serviceDate, metric, thresholdMinutes, includeCanceled, frequencyFilter, routeId) ==
    {r.data : r \in {x \in table : x.key = CacheKey(serviceDate, metric,
                        thresholdMinutes, includeCanceled, frequencyFilter, routeId)}}

\* A variant whose conflict clause adds the payload to the one in place.
setCachedDailyStatsMerged(table, serviceDate, metric, thresholdMinutes, includeCanceled, frequencyFilter, routeId, data) ==
    LET key == CacheKey(serviceDate, metric, thresholdMinutes, includeCanceled,
                        frequencyFilter, routeId)
    IN IF \E r \in table : r.key = key
       THEN {IF r.key # key THEN r
             ELSE [key |-> key,
                   data |-> [r.data EXCEPT !.onTimeTrips = @ + data.onTimeTrips]] :
                r \in table}
       ELSE table \cup {[key |-> key, data |-> data]}

\* A variant that inserts and leaves a row of the key in place.
setCachedDailyStatsInsertOnly(table, serviceDate, metric, thresholdMinutes, includeCanceled, frequencyFilter, routeId, data) ==
    table \cup {[key |-> CacheKey(serviceDate, metric, thresholdMinutes,
                                  includeCanceled, frequencyFilter, routeId),
                 data |-> data]}

\* INSERT ... ON CONFLICT (key) DO UPDATE SET data = EXCLUDED.data
setCachedDailyStats(table, serviceDate, metric, thresholdMinutes, includeCanceled, frequencyFilter, routeId, data) ==
    LET key == CacheKey(serviceDate, metric, thresholdMinutes, includeCanceled,
                        frequencyFilter, routeId)
    IN {r \in table : r.key # key} \cup {[key |-> key, data |-> data]}

Abs(x) == IF x < 0 THEN -x ELSE x

RECURSIVE SumDelay(_)
SumDelay(rows) ==
    IF rows = {} THEN 0
    ELSE LET r == CHOOSE x \in rows : TRUE IN r.delay_min[1] + SumDelay(rows \ {r})

\* trip_runs: AVG(v.delay_min) FILTER (WHERE v.delay_min IS NOT NULL) of the
\* trip's observations within the service day, as the pair <<sum, count>>;
\* NULL when the left join finds no delay.
avg_delay_min(tripId, serviceDay) ==
    LET rows == {v \in vehicles : /\ v.time >= serviceDay.start
                                  /\ v.time <= serviceDay.end
                                  /\ v.trip_id = tripId
                                  /\ v.delay_min # NULL}
    IN IF rows = {} THEN NULL ELSE <<SumDelay(rows), Cardinality(rows)>>

\* trip_meta: the scheduled trips of the version's services.
trip_meta(gtfsVersion, serviceIds) ==
    {b \in blocks : b.gtfs_version = gtfsVersion /\ b.service_id \in serviceIds}

\* A variant that leaves out a metric equal to the threshold.
onTimeFromMetricStrict(metricValue, threshold) ==
    Abs(metricValue[1]) < threshold * metricValue[2]

\* Math.abs(metricValue) <= threshold, on the pair <<sum, count>>.
onTimeFromMetric(metricValue, threshold) ==
    Abs(metricValue[1]) <= threshold * metricValue[2]

createAggregate ==
    [totalScheduled |-> 0, evaluatedTrips |-> 0, onTimeTrips |-> 0, canceledTrips |-> 0]

\* What updateAggregate counts for one trip that is not canceled: it is
\* evaluated when its metric is not null, and on time within the threshold.
Evaluated(metricValue) == metricValue # NULL
OnTime(metricValue, threshold) ==
    metricValue # NULL /\ onTimeFromMetric(metricValue, threshold)

\* The loop of updateAggregate over the day's trips, for dayAgg.overall.
updateAggregate(trips, serviceDay, threshold) ==
    [totalScheduled |-> Cardinality(trips),
     evaluatedTrips |-> Cardinality({t \in trips :
                           Evaluated(avg_delay_min(t.trip_id, serviceDay))}),
     onTimeTrips |-> Cardinality({t \in trips :
                           OnTime(avg_delay_min(t.trip_id, serviceDay), threshold)}),
     canceledTrips |-> 0]

\* A variant that keeps the target's count of on-time trips.
mergeAggregateFirstOnTime(target, source) ==
    [totalScheduled |-> target.totalScheduled + source.totalScheduled,
     evaluatedTrips |-> target.evaluatedTrips + source.evaluatedTrips,
     onTimeTrips |-> IF target.evaluatedTrips = 0 THEN source.onTimeTrips
                     ELSE target.onTimeTrips,
     canceledTrips |-> target.canceledTrips + source.canceledTrips]

mergeAggregate(target, source) ==
    [totalScheduled |-> target.totalScheduled + source.totalScheduled,
     evaluatedTrips |-> target.evaluatedTrips + source.evaluatedTrips,
     onTimeTrips |-> target.onTimeTrips + source.onTimeTrips,
     canceledTrips |-> target.canceledTrips + source.canceledTrips]

\* A pass of the loop over days that ends with continue pushes nothing.
Continue(table) ==
    [pushed |-> FALSE, cached |-> FALSE, data |-> createAggregate, table |-> table]

\* The day was computed: it is written to the cache and pushed.
Computed(table, dayOnlyDate, metric, threshold, includeCanceled, dayAgg) ==
    [pushed |-> TRUE, cached |-> FALSE, data |-> dayAgg,
     table |-> setCachedDailyStats(table, dayOnlyDate, metric, threshold,
                                   includeCanceled, "", "", dayAgg)]

\* if (!trips.length) continue; otherwise aggregate, cache and push.
WithTrips(table, dayOnlyDate, metric, threshold, includeCanceled, trips) ==
    IF trips = {} THEN Continue(table)
    ELSE Computed(table, dayOnlyDate, metric, threshold, includeCanceled,
                  updateAggregate(trips,
                      getServiceDayBoundariesWithPadding(dayOnlyDate), threshold))

\* if (!serviceIds.length) continue; otherwise query the day's trips.
WithServiceIds(table, dayOnlyDate, metric, threshold, includeCanceled, gtfsVersion, serviceIds) ==
    IF serviceIds = {} THEN Continue(table)
    ELSE WithTrips(table, dayOnlyDate, metric, threshold, includeCanceled,
                   trip_meta(gtfsVersion, serviceIds))

\* if (!gtfsVersion) continue; otherwise resolve the day's service ids.
WithVersion(table, dayOnlyDate, metric, threshold, includeCanceled, gtfsVersion) ==
    IF ~gtfsVersion.defined THEN Continue(table)
    ELSE WithServiceIds(table, dayOnlyDate, metric, threshold, includeCanceled,
             gtfsVersion.version,
             getServiceIds(gtfsVersion.version, toDateString(dayOnlyDate)))

\* if (existing) { push(existing); continue; }
WithExisting(table, dayOnlyDate, metric, threshold, includeCanceled, existing) ==
    IF existing # {}
    THEN [pushed |-> TRUE, cached |-> TRUE,
          data |-> CHOOSE d \in existing : TRUE, table |-> table]
    ELSE WithVersion(table, dayOnlyDate, metric, threshold, includeCanceled,
                     getGtfsVersion(dayOnlyDate))

\* One pass of the loop over days: the cache first, then the version, the
\* service ids and the trips, each of which can end the pass with continue.
DayPass(table, dayOnlyDate, metric, threshold, includeCanceled) ==
    WithExisting(table, dayOnlyDate, metric, threshold, includeCanceled,
        getCachedDailyStats(table, dayOnlyDate, metric, threshold,
                            includeCanceled, "", ""))

\* perDayAggregates.push: each pushed aggregate is kept with its day, whether
\* it came from the cache, and what the day's query gives at the time of the
\* request.
Push(perDay, day, pass, fresh) ==
    IF pass.pushed
    THEN Append(perDay, [day |-> toDateString(day), cached |-> pass.cached,
                         data |-> pass.data, fresh |-> fresh.data])
    ELSE perDay

\* for (const dayOnlyDate of days)
RECURSIVE DaysLoop(_, _, _, _, _, _, _)
RECURSIVE AfterPass(_, _, _, _, _, _, _, _)
AfterPass(day, rangeEnd, perDay, metric, threshold, includeCanceled, pass, fresh) ==
    DaysLoop(day + MinutesPerDay, rangeEnd, pass.table,
             Push(perDay, day, pass, fresh), metric, threshold, includeCanceled)

DaysLoop(day, rangeEnd, table, perDay, metric, threshold, includeCanceled) ==
    IF day > rangeEnd THEN [table |-> table, perDayAggregates |-> perDay]
    ELSE AfterPass(day, rangeEnd, perDay, metric, threshold, includeCanceled,
                   DayPass(table, day, metric, threshold, includeCanceled),
                   DayPass({}, day, metric, threshold, includeCanceled))

RECURSIVE MergeAll(_)
MergeAll(perDay) ==
    IF perDay = <<>> THEN createAggregate
    ELSE mergeAggregate(MergeAll(Tail(perDay)), Head(perDay).data)

\* if (!perDayAggregates.length) reply 404; otherwise merge and send.
ReplyOf(loop) ==
    IF loop.perDayAggregates = <<>>
    THEN [statusCode |-> 404,
          error |-> "No data available for the requested date range",
          perDay |-> <<>>, overall |-> createAggregate, table |-> loop.table]
    ELSE [statusCode |-> 200, error |-> "",
          perDay |-> loop.perDayAggregates,
          overall |-> MergeAll(loop.perDayAggregates), table |-> loop.table]

\* The handler of GET /api/on-time-performance for date, an optional endDate,
\* and the defaults of the other parameters.
OnTimePerformanceReply(table, date, endDate, threshold) ==
    IF endDate # NULL /\ endDate[1] < date
    THEN [statusCode |-> 400, error |-> "endDate must be on or after date.",
          perDay |-> <<>>, overall |-> createAggregate, table |-> table]
    ELSE ReplyOf(DaysLoop(date, IF endDate = NULL THEN date ELSE endDate[1],
                          table, <<>>, "avgObserved", threshold, FALSE))

Replied(reply, date, endDate) ==
    /\ cache' = reply.table
    /\ apiCall' = [called |-> TRUE, op |-> "onTimePerformance",
                   date |-> toDateString(date),
                   endDate |-> IF endDate = NULL THEN toDateString(date)
                               ELSE toDateString(endDate[1]),
                   serviceDay |-> toDateString(getDateFromTimestamp(now)),
                   statusCode |-> reply.statusCode, error |-> reply.error,
                   perDay |-> reply.perDay, overall |-> reply.overall]

OnTimePerformanceEndpoint(date, endDate, threshold) ==
    /\ Replied(OnTimePerformanceReply(cache, date, endDate, threshold), date, endDate)
    /\ UNCHANGED <<now, vehicles, exceptOtp>>

\* The route the endpoint is registered on, and the url the sweep injects.
RegisteredRoute == "/api/on-time-performance"
PrewarmUrl == "/api/onTimePerformance"
DefaultThreshold == 5

\* server.inject({ method: "GET", url }): the router answers 404 for a url
\* no route is registered on.
Inject(url, table, day) ==
    IF url # RegisteredRoute
    THEN [statusCode |-> 404, error |-> "Not Found", perDay |-> <<>>,
          overall |-> createAggregate, table |-> table]
    ELSE OnTimePerformanceReply(table, day, NULL, DefaultThreshold)

\* SELECT DISTINCT DATE(time) FROM vehicles
getAllServiceDays == {getDate(v.time) : v \in vehicles}

NoCount == [warmed |-> 0, skipped |-> 0, alreadyCached |-> 0, failed |-> 0]

\* The end of one pass of the sweep's loop after the injected request.
Injected(res, count) ==
    [table |-> res.table,
     count |-> IF res.statusCode >= 400 THEN [count EXCEPT !.failed = @ + 1]
               ELSE [count EXCEPT !.warmed = @ + 1]]

\* One pass of the sweep's loop: skip the current service day, skip a day
\* that is cached, otherwise request the day.
WarmPass(day, table, count) ==
    IF isCurrentServiceDay(day)
    THEN [table |-> table, count |-> [count EXCEPT !.skipped = @ + 1]]
    ELSE IF getCachedDailyStats(table, day, "avgObserved", DefaultThreshold,
                                FALSE, "", "") # {}
    THEN [table |-> table, count |-> [count EXCEPT !.alreadyCached = @ + 1]]
    ELSE Injected(Inject(PrewarmUrl, table, day), count)

Earliest(days) == CHOOSE x \in days : \A y \in days : x <= y

\* for (const day of days), in the order of the query
RECURSIVE WarmLoop(_, _)
WarmLoop(days, sweep) ==
    IF days = {} THEN sweep
    ELSE WarmLoop(days \ {Earliest(days)},
                  WarmPass(DateAt(Earliest(days)), sweep.table, sweep.count))

Swept(sweep) ==
    /\ cache' = sweep.table
    /\ apiCall' = [called |-> TRUE, op |-> "warmOnTimePerformanceCache",
                   count |-> sweep.count]

warmOnTimePerformanceCache ==
    /\ Swept(WarmLoop(getAllServiceDays, [table |-> cache, count |-> NoCount]))
    /\ UNCHANGED <<now, vehicles, exceptOtp>>

\* GET /api/blockCancelCount: the version of the day goes to getServiceIds and
\* into the queries unchecked. With an undefined version the database driver
\* either refuses the parameter or the query finds nothing; with the canceled
\* table empty the handler returns before the walk over earlier days.
CancelCountReplied(dayOnlyDate, gtfsVersion, driverRefuses) ==
    apiCall' = [called |-> TRUE, op |-> "blockCancelCount",
                date |-> toDateString(dayOnlyDate),
                gtfsVersion |-> gtfsVersion,
                statusCode |-> IF ~gtfsVersion.defined /\ driverRefuses
                               THEN 500 ELSE 200,
                error |-> IF ~gtfsVersion.defined /\ driverRefuses
                          THEN "UNDEFINED_VALUE" ELSE "",
                daysCanceled |-> 0, allDays |-> FALSE]

BlockCancelCountEndpoint(date, driverRefuses) ==
    /\ CancelCountReplied(getDateFromTimestamp(date),
                          getGtfsVersion(getDateFromTimestamp(date)), driverRefuses)
    /\ UNCHANGED <<now, vehicles, cache, exceptOtp>>

\* An observation of a poll is stored: INSERT INTO vehicles.
InsertObservation(busId, tripId, delay) ==
    LET row == [time |-> now, id |-> busId, trip_id |-> tripId, delay_min |-> delay,
                recorded_timestamp |-> <<getHours(now), getMinutes(now), 0>>,
                next_stop_id |-> ""]
    IN /\ Cardinality(vehicles) < MaxObservations
       /\ VehiclesKeyFree(row)
       /\ vehicles' = vehicles \cup {row}
       /\ UNCHANGED <<now, cache, apiCall, exceptOtp>>

(***************************************************************************)
(* The aggregation of one day's trip rows: onTimePerformance.ts            *)
(*                                                                         *)
(* A trip row is what the day's query returns for one scheduled trip: its  *)
(* route, its start_time (a triple or NULL), its avg_delay_min (a pair     *)
(* <<sum, count>> or NULL) and the schedule_relationship of its canceled   *)
(* row (NULL without one). A boolean | null is <<>> or <<b>>. A route key  *)
(* "route:direction" is the pair <<route, direction>>.                     *)
(***************************************************************************)
\* Of the routes the model uses, "10" is in frequentRouteIds and "20" is not.
frequentRouteIds == {"10"}

timeBuckets ==
    <<[label |-> "early", startMin |-> 0, endMin |-> 300],
      [label |-> "morning", startMin |-> 300, endMin |-> 540],
      [label |-> "midday", startMin |-> 540, endMin |-> 900],
      [label |-> "evening", startMin |-> 900, endMin |-> 1140],
      [label |-> "late", startMin |-> 1140, endMin |-> 1620]>>
BucketLabels == {timeBuckets[i].label : i \in DOMAIN timeBuckets}

intervalToMinutes(interval) ==
    IF interval = NULL THEN NULL ELSE Some(interval[1] * 60 + interval[2])

\* A variant whose ranges take in their end minute.
bucketForTripClosed(trip) ==
    LET scheduledStart == intervalToMinutes(trip.start_time)
        found == {i \in DOMAIN timeBuckets :
                     /\ scheduledStart # NULL
                     /\ scheduledStart[1] >= timeBuckets[i].startMin
                     /\ scheduledStart[1] <= timeBuckets[i].endMin}
    IN IF found = {} THEN ""
       ELSE timeBuckets[CHOOSE i \in found : \A j \in found : i <= j].label

\* The label of the first bucket that holds the trip's start, or "".
bucketForTrip(trip) ==
    LET scheduledStart == intervalToMinutes(trip.start_time)
        found == {i \in DOMAIN timeBuckets :
                     /\ scheduledStart # NULL
                     /\ scheduledStart[1] >= timeBuckets[i].startMin
                     /\ scheduledStart[1] < timeBuckets[i].endMin}
    IN IF found = {} THEN ""
       ELSE timeBuckets[CHOOSE i \in found : \A j \in found : i <= j].label

\* metric "avgObserved"
computeMetric(trip) == trip.avg_delay_min

createAggregateWithDelays == [counts |-> createAggregate, delays |-> <<>>]

\* A variant that evaluates every canceled trip.
updateAggregateTripCanceledEvaluated(agg, onTime, isCanceled, delayMinutes) ==
    [counts |->
        [totalScheduled |-> agg.counts.totalScheduled + 1,
         canceledTrips |-> agg.counts.canceledTrips + (IF isCanceled THEN 1 ELSE 0),
         evaluatedTrips |-> agg.counts.evaluatedTrips
                            + (IF onTime # NULL \/ isCanceled THEN 1 ELSE 0),
         onTimeTrips |-> agg.counts.onTimeTrips
                         + (IF onTime # NULL /\ onTime[1] THEN 1 ELSE 0)],
     delays |-> IF delayMinutes # NULL
                THEN Append(agg.delays, <<Abs(delayMinutes[1]), delayMinutes[2]>>)
                ELSE agg.delays]

\* updateAggregate(agg, onTime, isCanceled, delayMinutes) for one trip.
updateAggregateTrip(agg, onTime, isCanceled, delayMinutes) ==
    [counts |->
        [totalScheduled |-> agg.counts.totalScheduled + 1,
         canceledTrips |-> agg.counts.canceledTrips + (IF isCanceled THEN 1 ELSE 0),
         evaluatedTrips |-> agg.counts.evaluatedTrips + (IF onTime # NULL THEN 1 ELSE 0),
         onTimeTrips |-> agg.counts.onTimeTrips
                         + (IF onTime # NULL /\ onTime[1] THEN 1 ELSE 0)],
     delays |-> IF delayMinutes # NULL
                THEN Append(agg.delays, <<Abs(delayMinutes[1]), delayMinutes[2]>>)
                ELSE agg.delays]

emptyAggregateBundle ==
    [overall |-> createAggregateWithDelays,
     routes |-> <<>>,
     buckets |-> [l \in BucketLabels |-> createAggregateWithDelays]]

\* !!trip.schedule_relationship
isCanceledTrip(trip) ==
    trip.schedule_relationship # NULL /\ trip.schedule_relationship[1] # 0

\* const onTime = isCanceled ? (includeCanceled ? false : null) : onTimeFromMetric
onTimeOfTrip(trip, threshold, includeCanceled) ==
    IF isCanceledTrip(trip)
    THEN (IF includeCanceled THEN Some(FALSE) ELSE NULL)
    ELSE IF computeMetric(trip) = NULL THEN NULL
         ELSE Some(onTimeFromMetric(computeMetric(trip), threshold))

\* dayAgg.routes[routeKey] ??= createAggregate()
RouteAggregate(routes, routeKey) ==
    IF routeKey \in DOMAIN routes THEN routes[routeKey] ELSE createAggregateWithDelays

\* The body of the loop over the day's trips (lines 463-478).
AggregateTrip(dayAgg, trip, onTime, bucketLabel) ==
    [overall |-> updateAggregateTrip(dayAgg.overall, onTime,
                     isCanceledTrip(trip), computeMetric(trip)),
     routes |-> [k \in DOMAIN dayAgg.routes \cup {<<trip.route_id, trip.route_direction>>} |->
                   IF k = <<trip.route_id, trip.route_direction>>
                   THEN updateAggregateTrip(RouteAggregate(dayAgg.routes, k), onTime,
                            isCanceledTrip(trip), computeMetric(trip))
                   ELSE dayAgg.routes[k]],
     buckets |-> [l \in BucketLabels |->
                   IF l = bucketLabel
                   THEN updateAggregateTrip(dayAgg.buckets[l], onTime,
                            isCanceledTrip(trip), computeMetric(trip))
                   ELSE dayAgg.buckets[l]]]

\* for (const trip of trips), in the order of the query's rows.
RECURSIVE AggregateTrips(_, _, _, _)
AggregateTrips(dayAgg, trips, threshold, includeCanceled) ==
    IF trips = <<>> THEN dayAgg
    ELSE AggregateTrips(
             AggregateTrip(dayAgg, Head(trips),
                           onTimeOfTrip(Head(trips), threshold, includeCanceled),
                           bucketForTrip(Head(trips))),
             Tail(trips), threshold, includeCanceled)

mergeAggregateWithDelays(target, source) ==
    [counts |-> mergeAggregate(target.counts, source.counts),
     delays |-> target.delays \o source.delays]

\* mergeAggregateMap(target, source): target[key] ??= createAggregate() and
\* the merge, for every key of source.
mergeAggregateMap(target, source) ==
    [k \in DOMAIN target \cup DOMAIN source |->
        IF k \in DOMAIN source
        THEN mergeAggregateWithDelays(RouteAggregate(target, k), source[k])
        ELSE target[k]]

\* matchesFrequency && matchesRoute ("" stands for an absent filter)
MatchesFrequency(routeId, frequencyFilter) ==
    \/ frequencyFilter = ""
    \/ frequencyFilter = "frequent" /\ routeId \in frequentRouteIds
    \/ frequencyFilter = "non-frequent" /\ routeId \notin frequentRouteIds
MatchesRoute(routeId, routeFilter) == routeFilter = "" \/ routeId = routeFilter

\* The loop over merged.routes that builds filteredOverall (its counts).
RECURSIVE FilteredOverall(_, _, _, _)
FilteredOverall(routes, keys, routeFilter, frequencyFilter) ==
    IF keys = {} THEN createAggregate
    ELSE LET k == CHOOSE x \in keys : TRUE
             rest == FilteredOverall(routes, keys \ {k}, routeFilter, frequencyFilter)
         IN IF MatchesFrequency(k[1], frequencyFilter) /\ MatchesRoute(k[1], routeFilter)
            THEN mergeAggregate(rest, routes[k].counts)
            ELSE rest

\* The rows of the second query: AND b.route_id = routeFilter when given.
RECURSIVE RequeriedTrips(_, _)
RequeriedTrips(trips, routeFilter) ==
    IF trips = <<>> THEN <<>>
    ELSE IF MatchesRoute(Head(trips).route_id, routeFilter)
         THEN <<Head(trips)>> \o RequeriedTrips(Tail(trips), routeFilter)
         ELSE RequeriedTrips(Tail(trips), routeFilter)

\* The loop over the re-queried trips that fills filteredBuckets.
RECURSIVE FilteredBuckets(_, _, _, _, _)
FilteredBuckets(buckets, trips, threshold, includeCanceled, frequencyFilter) ==
    IF trips = <<>> THEN buckets
    ELSE FilteredBuckets(
             IF MatchesFrequency(Head(trips).route_id, frequencyFilter)
             THEN [l \in BucketLabels |->
                     IF l = bucketForTrip(Head(trips))
                     THEN updateAggregateTrip(buckets[l],
                              onTimeOfTrip(Head(trips), threshold, includeCanceled),
                              isCanceledTrip(Head(trips)), computeMetric(Head(trips)))
                     ELSE buckets[l]]
             ELSE buckets,
             Tail(trips), threshold, includeCanceled, frequencyFilter)

\* merged.routeBuckets: re-derived from the trips when filters are given and
\* the range does not hold the current service day, otherwise merged.buckets.
RouteBuckets(merged, trips, threshold, includeCanceled, routeFilter, frequencyFilter, containsCurrentDay) ==
    IF (routeFilter # "" \/ frequencyFilter # "") /\ ~containsCurrentDay
    THEN FilteredBuckets([l \in BucketLabels |-> createAggregateWithDelays],
                         RequeriedTrips(trips, routeFilter), threshold,
                         includeCanceled, frequencyFilter)
    ELSE merged.buckets

\* response.overall and response.timeOfDay (their counts).
ResponseOverall(merged, routeFilter, frequencyFilter) ==
    IF routeFilter # "" \/ frequencyFilter # ""
    THEN FilteredOverall(merged.routes, DOMAIN merged.routes, routeFilter, frequencyFilter)
    ELSE merged.overall.counts
ResponseTimeOfDay(merged, routeBuckets, routeFilter, frequencyFilter) ==
    IF routeFilter # "" \/ frequencyFilter # ""
    THEN [l \in BucketLabels |-> routeBuckets[l].counts]
    ELSE [l \in BucketLabels |-> merged.buckets[l].counts]

\* The merge of the one day's aggregate into an empty bundle (lines 493-498).
MergedDay(dayAgg) ==
    [overall |-> mergeAggregateWithDelays(createAggregateWithDelays, dayAgg.overall),
     routes |-> mergeAggregateMap(<<>>, dayAgg.routes),
     buckets |-> mergeAggregateMap(emptyAggregateBundle.buckets, dayAgg.buckets)]

\* A variant that gives null when no trip was on time.
withPercentOfOnTime(agg) ==
    IF agg.onTimeTrips = 0 THEN NULL
    ELSE <<agg.onTimeTrips * 100, agg.evaluatedTrips>>

\* withPercent: (onTimeTrips / evaluatedTrips) * 100 as the fraction
\* <<numerator, denominator>>, NULL without an evaluated trip.
withPercent(agg) ==
    IF agg.evaluatedTrips = 0 THEN NULL
    ELSE <<agg.onTimeTrips * 100, agg.evaluatedTrips>>

\* The statistics of a list of delays in whole minutes. A quotient is the pair
\* <<numerator, denominator>>; Math.ceil(length * 0.9) is the ceiling of
\* 9 * length / 10 (the product of the floating-point 0.9 and a length up to
\* 5000 rounds to the whole number whenever 9 * length / 10 is one).
RECURSIVE SumOfDelays(_)
SumOfDelays(delayValues) ==
    IF delayValues = <<>> THEN 0 ELSE Head(delayValues) + SumOfDelays(Tail(delayValues))

\* A variant that takes the upper middle element as the median and the
\* element at floor(length * 0.9) as p90.
withStatsUpper(agg) ==
    LET delayValues == SortSeq(agg.delays, LAMBDA a, b : a < b)
        length == Len(delayValues)
    IN IF length = 0
       THEN [onTimePct |-> withPercent(agg.counts), avgDelayMin |-> NULL,
             medianDelayMin |-> NULL, maxDelayMin |-> NULL, p90DelayMin |-> NULL]
       ELSE [onTimePct |-> withPercent(agg.counts),
             avgDelayMin |-> <<SumOfDelays(delayValues), length>>,
             medianDelayMin |-> <<delayValues[(length \div 2) + 1], 1>>,
             maxDelayMin |-> delayValues[length],
             p90DelayMin |-> delayValues[((length * 9) \div 10) + 1]]

\* withStats: the list is sorted ascending; mid = floor(length / 2); indexes
\* of the source count from 0, those of a sequence from 1.
withStats(agg) ==
    LET delayValues == SortSeq(agg.delays, LAMBDA a, b : a < b)
        length == Len(delayValues)
        mid == length \div 2
        ceiling == (length * 9 + 9) \div 10
        p90Index == IF ceiling - 1 > 0 THEN ceiling - 1 ELSE 0
    IN IF length = 0
       THEN [onTimePct |-> withPercent(agg.counts), avgDelayMin |-> NULL,
             medianDelayMin |-> NULL, maxDelayMin |-> NULL, p90DelayMin |-> NULL]
       ELSE [onTimePct |-> withPercent(agg.counts),
             avgDelayMin |-> <<SumOfDelays(delayValues), length>>,
             medianDelayMin |-> IF length % 2 = 0
                                THEN <<delayValues[mid] + delayValues[mid + 1], 2>>
                                ELSE <<delayValues[mid + 1], 1>>,
             maxDelayMin |-> delayValues[length],
             p90DelayMin |-> delayValues[p90Index + 1]]

\* A call of withStats with an aggregate of these delays.
CallWithStats(delays) ==
    /\ apiCall' = [called |-> TRUE, op |-> "withStats", delays |-> delays,
                   result |-> withStats([counts |-> createAggregate,
                                         delays |-> delays])]
    /\ UNCHANGED <<now, vehicles, cache, exceptOtp>>

\* { ...agg, onTimePct: pct }
Percented(counts) == [counts |-> counts, onTimePct |-> withPercent(counts)]

\* The aggregates of the response with their percentages: overall, the route
\* summary (a sequence, empty for the null of a request without a route
\* filter), the routes by direction, the routes with both directions
\* combined, and the buckets.
ResponsePercents(merged, overall, timeOfDay, routeFilter, frequencyFilter) ==
    [overall |-> Percented(overall),
     routeSummary |->
         IF routeFilter = "" THEN <<>>
         ELSE <<Percented(FilteredOverall(merged.routes, DOMAIN merged.routes,
                                          routeFilter, frequencyFilter))>>,
     routes |-> [k \in DOMAIN merged.routes |-> Percented(merged.routes[k].counts)],
     routesCombined |->
         [r \in {k[1] : k \in DOMAIN merged.routes} |->
             Percented(FilteredOverall(merged.routes, DOMAIN merged.routes, r, ""))],
     timeOfDay |-> [l \in BucketLabels |-> Percented(timeOfDay[l])]]

AggregateReplied(date, trips, threshold, includeCanceled, routeFilter, frequencyFilter, dayAgg, merged) ==
    apiCall' = [called |-> TRUE, op |-> "aggregate", date |-> toDateString(date),
                trips |-> trips, thresholdMinutes |-> threshold,
                includeCanceled |-> includeCanceled,
                routeId |-> routeFilter, frequencyFilter |-> frequencyFilter,
                containsCurrentDay |-> isCurrentServiceDay(date),
                dayAgg |-> dayAgg,
                overall |-> ResponseOverall(merged, routeFilter, frequencyFilter),
                timeOfDay |-> ResponseTimeOfDay(merged,
                    RouteBuckets(merged, trips, threshold, includeCanceled,
                                 routeFilter, frequencyFilter, isCurrentServiceDay(date)),
                    routeFilter, frequencyFilter),
                percents |-> ResponsePercents(merged,
                    ResponseOverall(merged, routeFilter, frequencyFilter),
                    ResponseTimeOfDay(merged,
                        RouteBuckets(merged, trips, threshold, includeCanceled,
                                     routeFilter, frequencyFilter,
                                     isCurrentServiceDay(date)),
                        routeFilter, frequencyFilter),
                    routeFilter, frequencyFilter)]

AggregateMerged(date, trips, threshold, includeCanceled, routeFilter, frequencyFilter, dayAgg) ==
    AggregateReplied(date, trips, threshold, includeCanceled, routeFilter,
                     frequencyFilter, dayAgg, MergedDay(dayAgg))

\* A request for one day that is not cached, as a function of the rows (at
\* least one) that the day's query returns: the aggregation of the rows, the
\* merge, the filters and the response.
AggregateRequest(date, trips, threshold, includeCanceled, routeFilter, frequencyFilter) ==
    /\ trips # <<>>
    /\ AggregateMerged(date, trips, threshold, includeCanceled, routeFilter,
                       frequencyFilter,
                       AggregateTrips(emptyAggregateBundle, trips, threshold,
                                      includeCanceled))
    /\ UNCHANGED <<now, vehicles, cache, exceptOtp>>

\* for (const agg of perDayAggregates) mergeAggregate(merged.overall, agg.overall)
RECURSIVE MergeOverall(_, _)
MergeOverall(target, perDay) ==
    IF perDay = <<>> THEN target
    ELSE MergeOverall(mergeAggregateWithDelays(target, Head(perDay)), Tail(perDay))

MergeReplied(perDay, merged) ==
    apiCall' = [called |-> TRUE, op |-> "merge", perDay |-> perDay,
                merged |-> merged, onTimePct |-> withPercent(merged.counts)]

\* The merge of the days' overall aggregates, cached or computed, and the
\* percentage of the response (lines 487-498, 615).
MergeDays(perDay) ==
    /\ perDay # <<>>
    /\ MergeReplied(perDay, MergeOverall(createAggregateWithDelays, perDay))
    /\ UNCHANGED <<now, vehicles, cache, exceptOtp>>

(***************************************************************************)
(* The cache manager with its table setup: cacheManager.ts, lines 27-127   *)
(***************************************************************************)
\* ensureCacheTableExists: returns at once when the flag is set; otherwise
\* it drops the legacy table and creates the table and its index, sets the
\* flag, and rethrows what the statements throw.
ensureCacheTableExists(initialized, setupFails) ==
    IF initialized THEN [threw |-> FALSE, initialized |-> TRUE]
    ELSE IF setupFails THEN [threw |-> TRUE, initialized |-> FALSE]
    ELSE [threw |-> FALSE, initialized |-> TRUE]

\* getCachedDailyStats after a setup that did not throw: the catch of the
\* query returns null.
CachedOrNull(table, readFails, serviceDate, metric, thresholdMinutes, includeCanceled) ==
    IF readFails THEN {}
    ELSE getCachedDailyStats(table, serviceDate, metric, thresholdMinutes,
                             includeCanceled, "", "")

\* setCachedDailyStats with the flag set: the catch of the upsert logs.
WrittenOrNot(table, writeFails, serviceDate, metric, thresholdMinutes, includeCanceled, data) ==
    IF writeFails THEN table
    ELSE setCachedDailyStats(table, serviceDate, metric, thresholdMinutes,
                             includeCanceled, "", "", data)

\* The operations of the request that were attempted and failed.
FailedOperations(setupThrew, readFails, hit, writeFails) ==
    IF setupThrew THEN {"setup"}
    ELSE (IF readFails THEN {"read"} ELSE {})
         \cup (IF ~hit /\ writeFails THEN {"write"} ELSE {})

SetupReplied(date, trips, threshold, failed, statusCode, overall, table, initialized) ==
    /\ cache' = table
    /\ cacheTableInitialized' = initialized
    /\ apiCall' = [called |-> TRUE, op |-> "requestWithSetup",
                   date |-> toDateString(date), trips |-> trips,
                   thresholdMinutes |-> threshold, failed |-> failed,
                   statusCode |-> statusCode, overall |-> overall]

\* The pass of the handler's loop for the day once the setup has not thrown.
AfterSetup(date, trips, threshold, readFails, writeFails, existing, dayAgg) ==
    IF existing # {}
    THEN SetupReplied(date, trips, threshold,
             FailedOperations(FALSE, readFails, TRUE, writeFails), 200,
             (CHOOSE d \in existing : TRUE).overall.counts, cache, TRUE)
    ELSE SetupReplied(date, trips, threshold,
             FailedOperations(FALSE, readFails, FALSE, writeFails), 200,
             dayAgg.overall.counts,
             WrittenOrNot(cache, writeFails, date, "avgObserved", threshold,
                          FALSE, dayAgg),
             TRUE)

\* A request for one day against the cache manager that sets its table up:
\* a rejection of getCachedDailyStats leaves the handler and the framework
\* answers 500.
RequestWithSetup(date, trips, threshold, setupFails, readFails, writeFails) ==
    /\ trips # <<>>
    /\ IF ensureCacheTableExists(cacheTableInitialized, setupFails).threw
       THEN SetupReplied(date, trips, threshold,
                FailedOperations(TRUE, readFails, FALSE, writeFails), 500,
                createAggregate, cache, cacheTableInitialized)
       ELSE AfterSetup(date, trips, threshold, readFails, writeFails,
                CachedOrNull(cache, readFails, date, "avgObserved", threshold, FALSE),
                AggregateTrips(emptyAggregateBundle, trips, threshold, FALSE))
    /\ UNCHANGED <<schedVars, verVars, pollVars, canceled>>

(***************************************************************************)
(* The cache functions called on their own: cacheManager.ts                *)
(***************************************************************************)
CacheReplied(op, serviceDate, thresholdMinutes, includeCanceled, frequencyFilter, routeId, failed, payload) ==
    apiCall' = [called |-> TRUE, op |-> op,
                serviceDate |-> toDateString(serviceDate), metric |-> "avgObserved",
                thresholdMinutes |-> thresholdMinutes,
                includeCanceled |-> includeCanceled,
                frequencyFilter |-> frequencyFilter, routeId |-> routeId,
                failed |-> failed, payload |-> payload]

\* One call of setCachedDailyStats; when the statement fails the catch logs
\* and the table is as before.
CallSetCachedDailyStats(serviceDate, thresholdMinutes, includeCanceled, frequencyFilter, routeId, data, fails) ==
    /\ cache' = IF fails THEN cache
                ELSE setCachedDailyStats(cache, serviceDate, "avgObserved",
                         thresholdMinutes, includeCanceled, frequencyFilter,
                         routeId, data)
    /\ CacheReplied("setCachedDailyStats", serviceDate, thresholdMinutes,
                    includeCanceled, frequencyFilter, routeId, fails, Some(data))
    /\ UNCHANGED <<now, vehicles, exceptOtp>>

\* result.length > 0 ? result[0].data : null
FirstOrNull(result) ==
    IF result = {} THEN NULL ELSE Some(CHOOSE data \in result : TRUE)

\* One call of getCachedDailyStats; when the query fails the catch returns
\* null.
CallGetCachedDailyStats(serviceDate, thresholdMinutes, includeCanceled, frequencyFilter, routeId, fails) ==
    /\ CacheReplied("getCachedDailyStats", serviceDate, thresholdMinutes,
                    includeCanceled, frequencyFilter, routeId, fails,
                    IF fails THEN NULL
                    ELSE FirstOrNull(getCachedDailyStats(cache, serviceDate,
                             "avgObserved", thresholdMinutes, includeCanceled,
                             frequencyFilter, routeId)))
    /\ UNCHANGED <<now, vehicles, cache, exceptOtp>>

(***************************************************************************)
(* The service date on the calendar: schedule.ts, fetchRealtime.ts         *)
(*                                                                         *)
(* A local instant is its getFullYear(), getMonth() (0 to 11), getDate()   *)
(* and getHours(); a date is the first three.                              *)
(***************************************************************************)
IsLeapYear(year) == year % 4 = 0 /\ (year % 100 # 0 \/ year % 400 = 0)

DaysInMonth(year, month) ==
    IF month = 1 THEN (IF IsLeapYear(year) THEN 29 ELSE 28)
    ELSE IF month \in {3, 5, 8, 10} THEN 30 ELSE 31

\* new Date(year, month, day) for a day of the month or the day 0 that the
\* decrement of the first gives: day 0 is the last day of the month before,
\* in the year before when the month is January.
NewDate(year, month, day) ==
    IF day >= 1 THEN [year |-> year, month |-> month, day |-> day]
    ELSE IF month = 0 THEN [year |-> year - 1, month |-> 11, day |-> 31]
    ELSE [year |-> year, month |-> month - 1, day |-> DaysInMonth(year, month - 1)]

\* A variant that also takes 03:00 for the day before.
getDateFromTimestampAtThree(time) ==
    NewDate(time.year, time.month, IF time.hours <= 3 THEN time.day - 1 ELSE time.day)

\* schedule.ts: if (time.getHours() < 3) day--
getDateFromTimestampLocal(time) ==
    NewDate(time.year, time.month, IF time.hours < 3 THEN time.day - 1 ELSE time.day)

\* fetchRealtime.ts: if (now.getHours() < 3) day--
getCurrentDateLocal(nowLocal) ==
    NewDate(nowLocal.year, nowLocal.month,
            IF nowLocal.hours < 3 THEN nowLocal.day - 1 ELSE nowLocal.day)

\* One call of getDateFromTimestamp(time), or of getCurrentDate() when the
\* clock reads time.
CallDateFunction(op, time) ==
    /\ apiCall = NoCall
    /\ apiCall' = [called |-> TRUE, op |-> op, time |-> time,
                   result |-> IF op = "getCurrentDate" THEN getCurrentDateLocal(time)
                              ELSE getDateFromTimestampLocal(time)]
    /\ UNCHANGED <<now, vehicles, cache, exceptOtp>>

(***************************************************************************)
(* The clock of the process: src/Dockerfile sets TZ=America/Toronto         *)
(*                                                                         *)
(* An instant is its getTime() in minutes from the midnight that begins     *)
(* day 1, the first of January 2024. On day 70, the tenth of March, the     *)
(* local clock goes from 02:00 to 03:00 and the day lasts 23 hours; on day  *)
(* 308, the third of November, it goes from 02:00 back to 01:00 and the day *)
(* lasts 25 hours.                                                          *)
(***************************************************************************)
ClockChanges == [forward |-> 70, back |-> 308]

\* new Date(year, month, day).getTime(): the instant of the day's local
\* midnight.
LocalMidnight(day) ==
    (day - 1) * MinutesPerDay
    - (IF day > ClockChanges.forward THEN 60 ELSE 0)
    + (IF day > ClockChanges.back THEN 60 ELSE 0)

\* getDate(), getHours() and getMinutes() of an instant.
LocalClock(t) ==
    LET day == CHOOSE d \in 0..368 : LocalMidnight(d) <= t /\ t < LocalMidnight(d + 1)
        elapsed == t - LocalMidnight(day)
        reading == IF day = ClockChanges.forward /\ elapsed >= 120 THEN elapsed + 60
                   ELSE IF day = ClockChanges.back /\ elapsed >= 120 THEN elapsed - 60
                   ELSE elapsed
    IN [day |-> day, hours |-> reading \div 60, minutes |-> reading % 60]

\* One call of getServiceDayBoundariesWithPadding for the day's midnight, and
\* one for the midnight of the day after.
CallGetServiceDayBoundaries(day) ==
    /\ apiCall = NoCall
    /\ apiCall' = [called |-> TRUE, op |-> "getServiceDayBoundariesWithPadding",
                   day |-> day, date |-> LocalMidnight(day),
                   serviceDay |-> getServiceDayBoundariesWithPadding(LocalMidnight(day)),
                   nextServiceDay |->
                       getServiceDayBoundariesWithPadding(LocalMidnight(day + 1))]
    /\ UNCHANGED <<now, vehicles, cache, exceptOtp>>

(***************************************************************************)
(* Two runs of the handler's pass over one day, interleaved at its awaits: *)
(* onTimePerformance.ts lines 410-485                                      *)
(***************************************************************************)
Computation(pc, payload, wrote) == [pc |-> pc, payload |-> payload, wrote |-> wrote]

\* Two requests for the day arrive (a live request and the injected request
\* of a pre-warm run the same handler).
StartComputations(date) ==
    /\ apiCall = NoCall
    /\ apiCall' = [called |-> TRUE, op |-> "computations", date |-> date,
                   comp |-> [i \in 1..2 |-> Computation("read", NULL, FALSE)]]
    /\ UNCHANGED <<now, vehicles, cache, exceptOtp>>

\* The step of one run at its await: the cache read (a hit ends the pass),
\* the day's queries and the aggregation of their rows (no version, no
\* service id or no trip ends the pass), the upsert of the payload.
ComputationAfter(comp, table, date, queried) ==
    IF comp.pc = "read"
    THEN IF getCachedDailyStats(table, date, "avgObserved", DefaultThreshold,
                                FALSE, NoString, NoString) # {}
         THEN Computation("done", NULL, FALSE)
         ELSE Computation("query", NULL, FALSE)
    ELSE IF comp.pc = "query"
    THEN IF queried.pushed THEN Computation("write", Some(queried.data), FALSE)
         ELSE Computation("done", NULL, FALSE)
    ELSE Computation("done", comp.payload, TRUE)

ComputationStep(i) ==
    /\ apiCall.called /\ apiCall.op = "computations"
    /\ apiCall.comp[i].pc # "done"
    /\ apiCall' = [apiCall EXCEPT !.comp[i] =
                      ComputationAfter(apiCall.comp[i], cache, apiCall.date,
                          WithVersion({}, apiCall.date, "avgObserved",
                              DefaultThreshold, FALSE, getGtfsVersion(apiCall.date)))]
    /\ cache' = IF apiCall.comp[i].pc = "write"
                THEN setCachedDailyStats(cache, apiCall.date, "avgObserved",
                         DefaultThreshold, FALSE, NoString, NoString,
                         apiCall.comp[i].payload[1])
                ELSE cache
    /\ UNCHANGED <<now, vehicles, exceptOtp>>

\* A variant whose range leaves out the end date.
invalidateCacheBeforeEnd(table, startDate, endDate) ==
    {r \in table : ~ (/\ r.key.service_date >= toDateString(startDate)
                      /\ r.key.service_date < toDateString(endDate))}

\* DELETE FROM cache_on_time_daily
\* WHERE service_date >= startDateStr AND service_date <= endDateStr
invalidateCacheForDateRange(table, startDate, endDate) ==
    {r \in table : ~ (/\ r.key.service_date >= toDateString(startDate)
                      /\ r.key.service_date <= toDateString(endDate))}

\* One call of invalidateCacheForDateRange; when the statement fails the
\* catch logs and the table is as before.
CallInvalidateCacheForDateRange(startDate, endDate, fails) ==
    /\ cache' = IF fails THEN cache
                ELSE invalidateCacheForDateRange(cache, startDate, endDate)
    /\ apiCall' = [called |-> TRUE, op |-> "invalidateCacheForDateRange",
                   startDate |-> toDateString(startDate),
                   endDate |-> toDateString(endDate), failed |-> fails,
                   removed |-> Cardinality(cache) - Cardinality(cache')]
    /\ UNCHANGED <<now, vehicles, exceptOtp>>

(***************************************************************************)
(* The block tracer: src/src/endpoints/blockDetails.ts                     *)
(*                                                                         *)
(* The request in progress is the record apiCall: the handler's blocks map *)
(* (here the buses of each block found), processedBusIds and               *)
(* busesToProcess, with the number of getBlocksForBus calls per bus.       *)
(***************************************************************************)
\* The observations of a trip from which getBlockData takes the trip's bus:
\* within the service day and more than 5 minutes after the scheduled start.
TripObservations(trip, serviceDay) ==
    {v \in vehicles : /\ v.time > serviceDay.start
                      /\ v.time < serviceDay.end
                      /\ v.trip_id = trip.trip_id
                      /\ timeToMinutes(v.recorded_timestamp)
                            > timeToMinutes(trip.start_time) + 5}

\* id as bus_id: the bus of the earliest such observation, "" without one.
BusOfTrip(trip, serviceDay) ==
    IF TripObservations(trip, serviceDay) = {} THEN ""
    ELSE (CHOOSE v \in TripObservations(trip, serviceDay) :
             \A o \in TripObservations(trip, serviceDay) : v.time <= o.time).id

\* The bus ids of the rows of a block, in the order of start_time.
RECURSIVE BusIdsByStart(_, _)
BusIdsByStart(trips, serviceDay) ==
    IF trips = {} THEN <<>>
    ELSE LET first == CHOOSE t \in trips : \A o \in trips :
                         timeToMinutes(t.start_time) <= timeToMinutes(o.start_time)
         IN <<BusOfTrip(first, serviceDay)>>
            \o BusIdsByStart(trips \ {first}, serviceDay)

\* getBlockData(...).map((v) => v.busId)
getBlockData(blockId, gtfsVersion, serviceIds, serviceDay) ==
    BusIdsByStart({b \in blocks : /\ b.gtfs_version = gtfsVersion
                                  /\ b.service_id \in serviceIds
                                  /\ b.block_id = blockId}, serviceDay)

getBlocksForBus(busId, gtfsVersion, serviceIds, serviceDay) ==
    {b.block_id : b \in {x \in blocks :
        /\ x.gtfs_version = gtfsVersion
        /\ x.service_id \in serviceIds
        /\ \E v \in vehicles : /\ v.trip_id = x.trip_id
                                /\ v.id = busId
                                /\ v.time > serviceDay.start
                                /\ v.time < serviceDay.end}}

\* The place of a trip id in ORDER BY trip_id: the ids the model stores, in
\* text order, and NULL after all of them.
TripIdOrder == <<"101", "102", "103", "104", "105", "999">>
TripIdPlace(tripId) ==
    IF \E i \in DOMAIN TripIdOrder : TripIdOrder[i] = tripId
    THEN CHOOSE i \in DOMAIN TripIdOrder : TripIdOrder[i] = tripId
    ELSE Len(TripIdOrder) + 1

\* getBlockIdForBus: the first row of the bus's observations of the service
\* day under ORDER BY trip_id, time, then the block_id of a blocks row with
\* that trip_id; the second query has no ORDER BY, so any of its rows can be
\* the first. The result is the set of values the call can return, NoString
\* for null.
getBlockIdForBus(busId, serviceDay) ==
    LET rows == {v \in vehicles : /\ v.time > serviceDay.start
                                  /\ v.time < serviceDay.end
                                  /\ v.id = busId}
    IN IF rows = {} THEN {NoString}
       ELSE LET trip == CHOOSE v \in rows : \A o \in rows :
                           \/ TripIdPlace(v.trip_id) < TripIdPlace(o.trip_id)
                           \/ /\ TripIdPlace(v.trip_id) = TripIdPlace(o.trip_id)
                              /\ v.time <= o.time
                found == {b.block_id : b \in {x \in blocks : x.trip_id = trip.trip_id}}
            IN IF found = {} THEN {NoString} ELSE found

\* .filter((v) => !!v && !processedBusIds.has(v))
RECURSIVE FilterBuses(_, _)
FilterBuses(busIds, processedBusIds) ==
    IF busIds = <<>> THEN <<>>
    ELSE IF Head(busIds) # "" /\ Head(busIds) \notin processedBusIds
         THEN <<Head(busIds)>> \o FilterBuses(Tail(busIds), processedBusIds)
         ELSE FilterBuses(Tail(busIds), processedBusIds)

RECURSIVE Repeated(_, _)
Repeated(seq, n) == IF n = 0 THEN <<>> ELSE seq \o Repeated(seq, n - 1)

\* The request's date resolves to version, service ids and service day.
TraceVersion(date) == getGtfsVersion(date).version
TraceServiceIds(date) == getServiceIdsAnyVersion(date)

\* The handler up to the loop (lines 49-77), for a request with a blockId.
TraceStarted(date, blockId, initialBlock) ==
    apiCall' = [called |-> TRUE, op |-> "blockDetails", pc |-> "loop",
                date |-> date, blockId |-> blockId,
                initialBlock |-> initialBlock,
                blocks |-> (blockId :> initialBlock),
                processedBusIds |-> {},
                busesToProcess |-> FilterBuses(initialBlock, {}),
                expansions |-> [b \in Buses |-> 0]]

BlockDetailsEndpoint(date, blockId) ==
    /\ apiCall = NoCall
    /\ TraceStarted(date, blockId,
           getBlockData(blockId, TraceVersion(date), TraceServiceIds(date),
                        getServiceDayBoundariesWithPadding(date)))
    /\ UNCHANGED <<now, vehicles, cache, exceptOtp>>

\* The handler up to the loop for a request with a busId and no blockId
\* (lines 62-68): the block of the bus is looked up, and without one the reply
\* is 400.
BusRequestStarted(date, busId, blockId, initialBlock) ==
    apiCall' =
        IF blockId = NoString
        THEN [called |-> TRUE, op |-> "blockDetails", pc |-> "replied",
              date |-> date, busId |-> busId, statusCode |-> 400,
              body |-> "No blocks running this bus today"]
        ELSE [called |-> TRUE, op |-> "blockDetails", pc |-> "loop",
              date |-> date, busId |-> busId, blockId |-> blockId,
              initialBlock |-> initialBlock,
              blocks |-> (blockId :> initialBlock),
              processedBusIds |-> {},
              busesToProcess |-> FilterBuses(initialBlock, {}),
              expansions |-> [b \in Buses |-> 0]]

BlockDetailsForBus(date, busId) ==
    /\ apiCall = NoCall
    /\ \E blockId \in getBlockIdForBus(busId, getServiceDayBoundariesWithPadding(date)) :
          BusRequestStarted(date, busId, blockId,
              getBlockData(blockId, TraceVersion(date), TraceServiceIds(date),
                           getServiceDayBoundariesWithPadding(date)))
    /\ UNCHANGED <<now, vehicles, cache, exceptOtp>>

\* A variant that expands a bus whenever it is popped.
UnprocessedAlways(nextBusId, processedBusIds) == nextBusId # ""

\* if (nextBusId && !processedBusIds.has(nextBusId))
Unprocessed(nextBusId, processedBusIds) ==
    nextBusId # "" /\ nextBusId \notin processedBusIds

\* The body of the if: the bus is marked, its blocks are queried, every block
\* not yet in the map is fetched and added, and for each of them the buses of
\* initialBlock that are not processed are pushed (line 92).
Expanded(call, nextBusId, rest, newBlockIds) ==
    [call EXCEPT
       !.processedBusIds = @ \cup {nextBusId},
       !.expansions[nextBusId] = @ + 1,
       !.blocks = [k \in DOMAIN call.blocks \cup newBlockIds |->
                     IF k \in DOMAIN call.blocks THEN call.blocks[k]
                     ELSE getBlockData(k, TraceVersion(call.date),
                              TraceServiceIds(call.date),
                              getServiceDayBoundariesWithPadding(call.date))],
       !.busesToProcess =
            rest \o Repeated(FilterBuses(call.initialBlock,
                                         call.processedBusIds \cup {nextBusId}),
                             Cardinality(newBlockIds \ DOMAIN call.blocks))]

\* One pass of the while loop: pop, and expand the bus if it is unprocessed.
TraceStep ==
    /\ apiCall.called
    /\ apiCall.op = "blockDetails"
    /\ apiCall.pc = "loop"
    /\ Len(apiCall.busesToProcess) > 0
    /\ LET nextBusId == apiCall.busesToProcess[Len(apiCall.busesToProcess)]
           rest == SubSeq(apiCall.busesToProcess, 1, Len(apiCall.busesToProcess) - 1)
       IN apiCall' =
            IF Unprocessed(nextBusId, apiCall.processedBusIds)
            THEN Expanded(apiCall, nextBusId, rest,
                     getBlocksForBus(nextBusId, TraceVersion(apiCall.date),
                         TraceServiceIds(apiCall.date),
                         getServiceDayBoundariesWithPadding(apiCall.date)))
            ELSE [apiCall EXCEPT !.busesToProcess = rest]
    /\ UNCHANGED <<now, vehicles, cache, exceptOtp>>

\* The queue is empty: return blocks.
TraceReturns ==
    /\ apiCall.called
    /\ apiCall.op = "blockDetails"
    /\ apiCall.pc = "loop"
    /\ Len(apiCall.busesToProcess) = 0
    /\ apiCall' = [apiCall EXCEPT !.pc = "done"]
    /\ UNCHANGED <<now, vehicles, cache, exceptOtp>>

(***************************************************************************)
(* Inputs of the tracer model                                              *)
(***************************************************************************)
TraceBlockIds == {"B1", "B2", "B3"}
TraceTripIds == <<"101", "102", "103", "104", "105">>
TraceBlockOf(i) == CASE i <= 2 -> "B1" [] i <= 4 -> "B2" [] OTHER -> "B3"
\* The trips of the blocks start one minute apart from 10:00.
TraceBlocks ==
    {[gtfs_version |-> 1, trip_id |-> TraceTripIds[i], route_id |-> "10",
      service_id |-> "A", block_id |-> TraceBlockOf(i), route_direction |-> 0,
      start_time |-> <<10, i, 0>>] : i \in DOMAIN TraceTripIds}
BusIndex(bus) == IF bus = "b1" THEN 1 ELSE 2
\* Bus bus reports trip i, ten minutes and more after the scheduled start.
TraceObservation(bus, i) ==
    [time |-> DateAt(PollDay) + 10 * 60 + 10 + 2 * i + BusIndex(bus),
     id |-> bus, trip_id |-> TraceTripIds[i], delay_min |-> NULL,
     recorded_timestamp |-> <<10, 10 + 2 * i + BusIndex(bus), 0>>,
     next_stop_id |-> ""]
\* Which bus can report which trip: chains and cycles of buses and blocks
\* are among the relations these give.
TraceReports ==
    {<<"b1", 1>>, <<"b2", 1>>, <<"b1", 2>>, <<"b2", 2>>, <<"b1", 3>>,
     <<"b2", 4>>, <<"b2", 5>>}

\* An observation of a poll is stored: INSERT INTO vehicles.
ObserveTrip(bus, i) ==
    /\ VehiclesKeyFree(TraceObservation(bus, i))
    /\ vehicles' = vehicles \cup {TraceObservation(bus, i)}
    /\ UNCHANGED <<now, cache, apiCall, exceptOtp>>

\* What the buses report on the Monday of the request: bus b1 an observation
\* without a trip at 08:00, trip 103 at 09:00 and trip 101 at 11:00, and trip
\* 101 at 02:00 before the service day starts; bus b2 an observation without
\* a trip at 09:30, trip 999 of no block at 10:00 and trip 105 at 12:00.
SeedReports ==
    {<<"b1", NoString, 8 * 60>>, <<"b1", "103", 9 * 60>>, <<"b1", "101", 11 * 60>>,
     <<"b1", "101", 2 * 60>>, <<"b2", NoString, 9 * 60 + 30>>,
     <<"b2", "999", 10 * 60>>, <<"b2", "105", 12 * 60>>}

\* An observation of a poll is stored: INSERT INTO vehicles.
ObserveAt(bus, tripId, minute) ==
    LET row == [time |-> DateAt(PollDay) + minute, id |-> bus, trip_id |-> tripId,
                delay_min |-> NULL,
                recorded_timestamp |-> <<minute \div 60, minute % 60, 0>>,
                next_stop_id |-> ""]
    IN /\ VehiclesKeyFree(row)
       /\ vehicles' = vehicles \cup {row}
       /\ UNCHANGED <<now, cache, apiCall, exceptOtp>>

(***************************************************************************)
(* The cancellation streak: src/src/endpoints/blockCancelCount.ts          *)
(*                                                                         *)
(* A row of the handler's query carries the trip's start_time, route_id    *)
(* and route_direction and the schedule_relationship of the joined canceled *)
(* row, NULL when the join found none.                                     *)
(***************************************************************************)
CancelRow(b, scheduleRelationship) ==
    [trip_id |-> b.trip_id, start_time |-> b.start_time, route_id |-> b.route_id,
     route_direction |-> b.route_direction,
     schedule_relationship |-> scheduleRelationship]

\* FROM blocks b LEFT JOIN canceled c ON b.trip_id = c.trip_id
\* WHERE gtfs_version = ... AND service_id IN ... AND block_id = ...
\*   AND (c.date = day OR c.date IS NULL):
\* the join pairs a trip with each of its canceled rows, of whatever date, and
\* yields a row of nulls only for a trip without any; the WHERE clause then
\* keeps the pairs of the day and the rows of nulls.
CanceledQuery(gtfsVersion, serviceIds, day, blockId) ==
    LET scheduled == {b \in blocks : /\ b.gtfs_version = gtfsVersion
                                     /\ b.service_id \in serviceIds
                                     /\ b.block_id = blockId}
    IN {CancelRow(b, NULL) :
            b \in {x \in scheduled : ~ \E c \in canceled : c.trip_id = x.trip_id}}
       \cup UNION {{CancelRow(b, Some(c.schedule_relationship)) :
                       c \in {x \in canceled : x.trip_id = b.trip_id /\ x.date = day}} :
                   b \in scheduled}

\* rows.every((c) => c.schedule_relationship)
EveryCanceled(rows) ==
    \A c \in rows : c.schedule_relationship # NULL /\ c.schedule_relationship[1] # 0

\* The first branch of the loop: the day's rows differ from the initial ones
\* in number, or one of them has no initial row of its start time, route and
\* direction.
BlockDiffers(rows, initialTrips) ==
    \/ Cardinality(rows) # Cardinality(initialTrips)
    \/ ~ \A c \in rows : \E i \in initialTrips :
            /\ c.start_time = i.start_time
            /\ c.route_id = i.route_id
            /\ c.route_direction = i.route_direction

\* The rows of one day for the handler: version, service ids, query.
DayRows(day, blockId) ==
    CanceledQuery(getGtfsVersion(day).version,
                  getServiceIds(getGtfsVersion(day).version, toDateString(day)),
                  toDateString(day), blockId)

\* while (!daysNotCancelled && daysNotAvailable <= 2), one pass per day back.
RECURSIVE CancelWalk(_, _, _, _, _, _, _)
RECURSIVE WalkDay(_, _, _, _, _, _, _, _)
WalkDay(dayOnlyDate, blockId, initialTrips, daysBack, daysCanceled, daysNotCancelled, daysNotAvailable, rows) ==
    IF BlockDiffers(rows, initialTrips)
    THEN CancelWalk(dayOnlyDate, blockId, initialTrips, daysBack + 1,
                    daysCanceled, daysNotCancelled, daysNotAvailable + 1)
    ELSE IF EveryCanceled(rows)
    THEN CancelWalk(dayOnlyDate, blockId, initialTrips, daysBack + 1,
                    daysCanceled + 1, daysNotCancelled, 0)
    ELSE CancelWalk(dayOnlyDate, blockId, initialTrips, daysBack + 1,
                    daysCanceled, daysNotCancelled + 1, daysNotAvailable)

CancelWalk(dayOnlyDate, blockId, initialTrips, daysBack, daysCanceled, daysNotCancelled, daysNotAvailable) ==
    IF daysNotCancelled = 0 /\ daysNotAvailable <= 2
    THEN WalkDay(dayOnlyDate, blockId, initialTrips, daysBack, daysCanceled,
                 daysNotCancelled, daysNotAvailable,
                 DayRows(dayOnlyDate - daysBack * MinutesPerDay, blockId))
    ELSE [daysCanceled |-> daysCanceled, allDays |-> daysNotCancelled = 0]

\* If not all cancelled, don't search; otherwise walk back.
StreakOf(dayOnlyDate, blockId, initialTrips) ==
    IF initialTrips = {} \/ ~EveryCanceled(initialTrips)
    THEN [daysCanceled |-> 0, allDays |-> FALSE]
    ELSE CancelWalk(dayOnlyDate, blockId, initialTrips, 1, 1, 0, 0)

StreakReplied(dayOnlyDate, blockId, streak) ==
    apiCall' = [called |-> TRUE, op |-> "cancellationStreak",
                date |-> toDateString(dayOnlyDate), blockId |-> blockId,
                statusCode |-> 200,
                daysCanceled |-> streak.daysCanceled, allDays |-> streak.allDays]

\* GET /api/blockCancelCount with a blockId, on days that have a schedule
\* version.
CancellationStreak(date, blockId) ==
    /\ StreakReplied(getDateFromTimestamp(date), blockId,
           StreakOf(getDateFromTimestamp(date), blockId,
                    DayRows(getDateFromTimestamp(date), blockId)))
    /\ UNCHANGED <<now, vehicles, cache, exceptOtp>>

\* The handler of a block id up to its loop: the initial trip list, the early
\* return when not every trip of the day is canceled, and the counters of
\* the walk. One request is in the handler at a time.
StreakStarted(date, blockId) ==
    LET dayOnlyDate == getDateFromTimestamp(date)
        initialTrips == DayRows(dayOnlyDate, blockId)
        walks == initialTrips # {} /\ EveryCanceled(initialTrips)
    IN /\ apiCall.called => apiCall.pc = "replied"
       /\ apiCall' = [called |-> TRUE, op |-> "cancellationWalk",
                      pc |-> IF walks THEN "loop" ELSE "replied",
                      dayOnlyDate |-> dayOnlyDate, blockId |-> blockId,
                      initialTrips |-> initialTrips, statusCode |-> 200,
                      daysCanceled |-> IF walks THEN 1 ELSE 0,
                      daysNotCancelled |-> 0, daysNotAvailable |-> 0,
                      daysBack |-> 1, allDays |-> FALSE]
       /\ UNCHANGED <<now, vehicles, cache, exceptOtp>>

\* A variant of the pass in which a day whose block differs is not counted.
StreakDayBackUncounted(driverRefuses) ==
    /\ apiCall.called /\ apiCall.op = "cancellationWalk" /\ apiCall.pc = "loop"
    /\ apiCall.daysBack \in WalkDays
    /\ LET nextDay == apiCall.dayOnlyDate - apiCall.daysBack * MinutesPerDay
           rows == DayRows(nextDay, apiCall.blockId)
           counted ==
               IF BlockDiffers(rows, apiCall.initialTrips)
               THEN apiCall
               ELSE IF EveryCanceled(rows)
               THEN [apiCall EXCEPT !.daysCanceled = @ + 1, !.daysNotAvailable = 0]
               ELSE [apiCall EXCEPT !.daysNotCancelled = @ + 1]
           passed == [counted EXCEPT !.daysBack = @ + 1]
       IN apiCall' =
            IF ~getGtfsVersion(nextDay).defined /\ driverRefuses
            THEN [apiCall EXCEPT !.pc = "replied", !.statusCode = 500]
            ELSE IF passed.daysNotCancelled = 0 /\ passed.daysNotAvailable <= 2
            THEN passed
            ELSE [passed EXCEPT !.pc = "replied", !.allDays = (passed.daysNotCancelled = 0)]
    /\ UNCHANGED <<now, vehicles, cache, exceptOtp>>

\* One pass of while (!daysNotCancelled && daysNotAvailable <= 2): the version
\* and the service ids of the day daysBack days earlier, its rows, the
\* counters, and the test of the loop again; when the test fails the handler
\* returns. A day before the first import has no version: the driver either
\* refuses the undefined parameter, which ends the request with a 500, or
\* the query finds nothing.
StreakDayBack(driverRefuses) ==
    /\ apiCall.called /\ apiCall.op = "cancellationWalk" /\ apiCall.pc = "loop"
    /\ apiCall.daysBack \in WalkDays
    /\ LET nextDay == apiCall.dayOnlyDate - apiCall.daysBack * MinutesPerDay
           rows == DayRows(nextDay, apiCall.blockId)
           counted ==
               IF BlockDiffers(rows, apiCall.initialTrips)
               THEN [apiCall EXCEPT !.daysNotAvailable = @ + 1]
               ELSE IF EveryCanceled(rows)
               THEN [apiCall EXCEPT !.daysCanceled = @ + 1, !.daysNotAvailable = 0]
               ELSE [apiCall EXCEPT !.daysNotCancelled = @ + 1]
           passed == [counted EXCEPT !.daysBack = @ + 1]
       IN apiCall' =
            IF ~getGtfsVersion(nextDay).defined /\ driverRefuses
            THEN [apiCall EXCEPT !.pc = "replied", !.statusCode = 500]
            ELSE IF passed.daysNotCancelled = 0 /\ passed.daysNotAvailable <= 2
            THEN passed
            ELSE [passed EXCEPT !.pc = "replied", !.allDays = (passed.daysNotCancelled = 0)]
    /\ UNCHANGED <<now, vehicles, cache, exceptOtp>>

(***************************************************************************)
(* Inputs of the cancellation model                                        *)
(***************************************************************************)
\* Service A runs from the Tuesday of the first week to the Wednesday of the
\* second, except on the weekend; each running day is a calendar_dates row.
StreakRunningDays == {2, 3, 4, 5, 8, 9, 10}
StreakCalendarDates ==
    {[gtfs_version |-> 1, service_id |-> "A", date |-> d, exception_type |-> 1] :
        d \in StreakRunningDays}
StreakVersions == {[version |-> 1, import_date |-> 1]}
StreakBlocks ==
    {[gtfs_version |-> 1, trip_id |-> "101", route_id |-> "10", service_id |-> "A",
      block_id |-> "B1", route_direction |-> 0, start_time |-> <<10, 0, 0>>],
     [gtfs_version |-> 1, trip_id |-> "102", route_id |-> "10", service_id |-> "A",
      block_id |-> "B1", route_direction |-> 1, start_time |-> <<11, 0, 0>>],
     [gtfs_version |-> 1, trip_id |-> "103", route_id |-> "10", service_id |-> "A",
      block_id |-> "B2", route_direction |-> 0, start_time |-> <<10, 0, 0>>]}
\* The cancellations that may be on record: of the trips of block B1 on the
\* Friday, Monday, Tuesday and Wednesday, and of the trip of B2 on the last
\* three of them.
StreakCancellations ==
    {[date |-> d, trip_id |-> t, schedule_relationship |-> 3] :
        d \in {5, 8, 9, 10}, t \in {"101", "102"}}
StreakChain ==
    {[date |-> d, trip_id |-> "103", schedule_relationship |-> 3] : d \in {8, 9, 10}}

\* The walk near the first import: the only version is imported on the
\* Thursday of the first week, and the trips of block B1 may be canceled on
\* that Thursday, the Friday, and the Monday and Tuesday after.
WalkVersions == {[version |-> 1, import_date |-> 4]}
WalkCancellations ==
    {[date |-> d, trip_id |-> t, schedule_relationship |-> 3] :
        d \in {4, 5, 8, 9}, t \in {"101", "102"}}
WalkRequestDays == {4, 5, 9}

\* The feeds of the import model. trips.txt lists three trips; stop_times.txt
\* lists the stops of some of them, trip by trip and in any order of the
\* trips: one or two stops of trip 101, two of trip 102, one of trip 103.
FeedTrips ==
    {[trip_id |-> t, route_id |-> "10", service_id |-> "A", block_id |-> "B1",
      route_direction |-> 0] : t \in {"101", "102", "103"}}
FeedLine(tripId, stopSequence, departureTime) ==
    [trip_id |-> tripId, stop_id |-> "S", stop_sequence |-> stopSequence,
     departure_time |-> departureTime]
FeedRuns ==
    [t \in {"101", "102", "103"} |->
        CASE t = "101" -> {<<FeedLine(t, 1, <<10, 0, 0>>)>>,
                           <<FeedLine(t, 1, <<10, 0, 0>>), FeedLine(t, 2, <<10, 30, 0>>)>>}
          [] t = "102" -> {<<FeedLine(t, 1, <<11, 0, 0>>), FeedLine(t, 2, <<11, 45, 0>>)>>}
          [] OTHER -> {<<FeedLine(t, 1, <<25, 10, 0>>)>>}]
FeedOrders ==
    {o \in UNION {[1..n -> {"101", "102", "103"}] : n \in 0..3} :
        \A i, j \in 1..Len(o) : i # j => o[i] # o[j]}
FeedsOf(o) ==
    CASE Len(o) = 0 -> {<<>>}
      [] Len(o) = 1 -> FeedRuns[o[1]]
      [] Len(o) = 2 -> {x \o y : x \in FeedRuns[o[1]], y \in FeedRuns[o[2]]}
      [] OTHER -> {x \o y \o z : x \in FeedRuns[o[1]], y \in FeedRuns[o[2]],
                                 z \in FeedRuns[o[3]]}
FeedStopTimes == UNION {FeedsOf(o) : o \in FeedOrders}
\* The first version, imported before with its times set.
FeedFirstBlocks ==
    {[gtfs_version |-> 1, trip_id |-> "101", route_id |-> "10", service_id |-> "A",
      block_id |-> "B1", route_direction |-> 0,
      start_time |-> <<9, 0, 0>>, end_time |-> <<9, 40, 0>>]}
FeedFirstStops ==
    {[gtfs_version |-> 1, trip_id |-> "101", stop_id |-> "S", stop_sequence |-> i,
      arrival_time |-> <<9, (i - 1) * 40, 0>>,
      departure_time |-> <<9, (i - 1) * 40, 0>>] : i \in 1..2}

(***************************************************************************)
(* Inputs of the cache model                                               *)
(***************************************************************************)
CacheFilters == {NoString, "", "frequent"}
CacheRouteIds == {NoString, "", "10"}
CachePayloads ==
    {[overall |-> createAggregate],
     [overall |-> [createAggregate EXCEPT !.totalScheduled = 1]]}

\* The instants of a common year and of a leap year, at the hours around the
\* cutoff and at the ends of the day.
LocalYears == {2023, 2024}
LocalHours == {0, 2, 3, 4, 23}
LocalInstants ==
    UNION {{[year |-> y, month |-> m, day |-> d, hours |-> h] :
               d \in 1..DaysInMonth(y, m), h \in LocalHours} :
           y \in LocalYears, m \in 0..11}

\* The rows a cache may hold before an invalidation: three past days under
\* three settings of metric, threshold and includeCanceled.
CachedDays == {PollDay - 3, PollDay - 2, PollDay - 1}
CachedSettings == {<<"avgObserved", 5, FALSE>>, <<"start", 5, FALSE>>,
                   <<"avgObserved", 10, TRUE>>}
CachedRows ==
    {[key |-> CacheKey(DateAt(d), c[1], c[2], c[3], NoString, NoString),
      data |-> [overall |-> createAggregate]] : d \in CachedDays, c \in CachedSettings}

(***************************************************************************)
(* Inputs of the aggregation model                                         *)
(***************************************************************************)
MaxTrips == 2
AggRoutes == {"10", "20"}
\* Average delays of exactly the threshold, early and late, and beyond it.
AggDelays == {NULL, <<5, 1>>, <<-5, 1>>, <<11, 2>>}
AggStartTimes == <<<<6, 0, 0>>, <<10, 0, 0>>, NULL>>
TripName(i) == CASE i = 1 -> "101" [] i = 2 -> "102" [] OTHER -> "103"
TripRows(i) ==
    {[trip_id |-> TripName(i), route_id |-> r, route_direction |-> 0,
      start_time |-> AggStartTimes[((i - 1) % 3) + 1], avg_delay_min |-> d,
      schedule_relationship |-> c] :
        r \in AggRoutes, d \in AggDelays, c \in {NULL, Some(3)}}
RECURSIVE TripSeqs(_)
TripSeqs(n) ==
    IF n = 0 THEN {<<>>}
    ELSE {Append(t, row) : t \in TripSeqs(n - 1), row \in TripRows(n)}
AggTrips == UNION {TripSeqs(n) : n \in 1..MaxTrips}
MaxDays == 2
DayCounts ==
    {[totalScheduled |-> 10, evaluatedTrips |-> 10, onTimeTrips |-> 8, canceledTrips |-> 0],
     [totalScheduled |-> 5, evaluatedTrips |-> 5, onTimeTrips |-> 1, canceledTrips |-> 0],
     [totalScheduled |-> 3, evaluatedTrips |-> 2, onTimeTrips |-> 2, canceledTrips |-> 1],
     [totalScheduled |-> 2, evaluatedTrips |-> 0, onTimeTrips |-> 0, canceledTrips |-> 0]}
DayDelays == {<<>>, <<<<3, 1>>>>, <<<<9, 1>>, <<3, 1>>>>, <<<<4, 1>>>>}
DayAggregates == [counts : DayCounts, delays : DayDelays]
PerDayAggregates == UNION {[1..n -> DayAggregates] : n \in 1..MaxDays}
\* The rows of one trip of route 10 that is not canceled.
SetupTrips == {t \in TripSeqs(1) : t[1].route_id = "10"
                                   /\ t[1].schedule_relationship = NULL}
AggFilters == {<<"", "">>, <<"10", "">>, <<"", "frequent">>, <<"", "non-frequent">>}

\* Trips that start at the ends of the buckets, past the last one, or have no
\* start time.
BucketStartTimes ==
    {NULL, <<0, 0, 0>>, <<4, 59, 0>>, <<5, 0, 0>>, <<8, 59, 0>>, <<9, 0, 0>>,
     <<14, 59, 0>>, <<15, 0, 0>>, <<18, 59, 0>>, <<19, 0, 0>>, <<26, 59, 0>>,
     <<27, 0, 0>>, <<28, 30, 0>>}
BucketTripRows(i) ==
    {[trip_id |-> TripName(i), route_id |-> "10", route_direction |-> i - 1,
      start_time |-> t, avg_delay_min |-> <<5, 1>>, schedule_relationship |-> NULL] :
        t \in BucketStartTimes}
BucketTrips ==
    {<<a>> : a \in BucketTripRows(1)}
    \cup {<<a, b>> : a \in BucketTripRows(1), b \in BucketTripRows(2)}

(***************************************************************************)
(* Inputs of the on-time-performance model                                 *)
(***************************************************************************)
\* Sunday, Monday and Tuesday; the schedule was imported on the Monday.
OtpDays == (PollDay - 1)..(PollDay + 1)
OtpVersions == {[version |-> 1, import_date |-> PollDay]}
OtpCalendar ==
    {CalendarRow(1, "A", {1}, <<1, 14>>), CalendarRow(1, "B", {2}, <<1, 14>>)}
OtpBlocks ==
    {[gtfs_version |-> 1, trip_id |-> "101", route_id |-> "10", service_id |-> "A",
      block_id |-> "B1", route_direction |-> 0, start_time |-> <<10, 0, 0>>],
     [gtfs_version |-> 1, trip_id |-> "103", route_id |-> "10", service_id |-> "B",
      block_id |-> "B1", route_direction |-> 0, start_time |-> <<10, 0, 0>>]}
\* The clock is looked at before 03:00, between 03:00 and 05:00, and later.
ClockHours == {2, 4, 10}
ClockInstants == {DateAt(d) + h * 60 : d \in PollDay..(PollDay + 1), h \in ClockHours}
OtpStart == DateAt(PollDay) + 2 * 60
ObservedDelays == {Some(3), Some(9)}

AdvanceClock ==
    /\ \E t \in ClockInstants : t > now
    /\ now' = CHOOSE t \in ClockInstants :
                 t > now /\ \A u \in ClockInstants : u > now => t <= u
    /\ UNCHANGED <<vehicles, cache, apiCall, exceptOtp>>

(***************************************************************************)
(* Specifications                                                          *)
(***************************************************************************)
InitSched ==
    /\ calendar = {}
    /\ calendar_dates = {}
    /\ svcCall = NoCall

InitVer ==
    /\ gtfs_versions = {}
    /\ verCall = NoCall

InitPoll ==
    /\ now = PollStart
    /\ blocks = PollBlocks
    /\ stops = PollStops
    /\ vehicles = {}
    /\ block_data = {}
    /\ started = 0
    /\ cycles = [c \in 1..MaxCycles |-> IdleCycle]

InitCache ==
    /\ cache = {}
    /\ apiCall = NoCall
    /\ cacheTableInitialized = FALSE
    /\ canceled = {}

Init == InitSched /\ InitVer /\ InitPoll /\ InitCache

\* The ingestion runs against an imported schedule.
InitIngest ==
    /\ calendar = PollCalendar
    /\ calendar_dates = {}
    /\ svcCall = NoCall
    /\ InitVer
    /\ InitPoll
    /\ InitCache

NextSched ==
    \/ \E v \in Versions, s \in Services, days \in DayPatterns, range \in DateRanges :
          ImportCalendarLine(v, s, days, range)
    \/ \E v \in Versions, s \in Services, d \in Dates, t \in ExceptionTypes :
          ImportCalendarDatesLine(v, s, d, t)
    \/ \E v \in Versions, d \in Dates : CallGetServiceIds(v, d)

NextVer ==
    \/ \E date \in ImportDates : ImportGtfs(date)
    \/ \E date \in ImportDates : CallGetGtfsVersion(date)

PollStep(entities, sizes, tripFeeds) ==
    \/ TimerFires
    \/ \E c \in 1..MaxCycles, okPositions \in BOOLEAN, okTrips \in BOOLEAN,
          size \in sizes, tripFeed \in tripFeeds :
          FetchSettles(c, okPositions, okTrips, size, tripFeed)
    \/ \E c \in 1..MaxCycles, entity \in entities : ProcessEntity(c, entity)
    \/ \E c \in 1..MaxCycles : LoopEnds(c)
    \/ \E c \in 1..MaxCycles, k \in 1..MaxEntities : InsertVehicleSettles(c, k)
    \/ \E c \in 1..MaxCycles, k \in 1..MaxEntities : SelectExistingSettles(c, k)
    \/ \E c \in 1..MaxCycles, k \in 1..MaxEntities : InsertBlockDataSettles(c, k)
    \/ \E c \in 1..MaxCycles : PromiseAllSettles(c)

InitOtp ==
    /\ calendar = OtpCalendar
    /\ calendar_dates = {}
    /\ svcCall = NoCall
    /\ gtfs_versions = OtpVersions
    /\ verCall = NoCall
    /\ now = OtpStart
    /\ blocks = OtpBlocks
    /\ stops = {}
    /\ vehicles = {}
    /\ block_data = {}
    /\ started = 0
    /\ cycles = [c \in 1..MaxCycles |-> IdleCycle]
    /\ InitCache

NextOtp ==
    \/ AdvanceClock
    \/ \E tripId \in {"101", "103"}, delay \in ObservedDelays :
          InsertObservation("b1", tripId, delay)
    \/ \E d \in OtpDays, e \in {NULL, Some(DateAt(PollDay))} :
          OnTimePerformanceEndpoint(DateAt(d), e, DefaultThreshold)
    \/ warmOnTimePerformanceCache
    \/ \E d \in OtpDays, driverRefuses \in BOOLEAN :
          BlockCancelCountEndpoint(DateAt(d) + 12 * 60, driverRefuses)

\* Trip-id resolution starts before the first schedule import.
InitTrip ==
    /\ InitSched
    /\ InitVer
    /\ InitCache
    /\ now = PollStart
    /\ blocks = {}
    /\ stops = {}
    /\ vehicles = {}
    /\ block_data = {}
    /\ started = 0
    /\ cycles = [c \in 1..MaxCycles |-> IdleCycle]

NextTrip ==
    \/ \E v \in TripVersions, t \in TripIds, s \in Services, st \in TripStartTimes :
          ImportTrip(v, t, s, st)
    \/ \E serviceIds \in SUBSET Services, r \in ReceivedTripIds, st \in TripStartTimes :
          CallGetRealTripId(serviceIds, r, "10", st)

\* The aggregation is checked on the Monday and the Tuesday, at each hour
\* of the clock. The computation of a request does not depend on earlier
\* requests, so a behaviour holds one request.
InitAgg == InitOtp

NextAgg ==
    \/ AdvanceClock
    \/ /\ apiCall = NoCall
       /\ \E d \in {PollDay, PollDay + 1}, trips \in AggTrips,
             includeCanceled \in BOOLEAN, f \in AggFilters :
             AggregateRequest(DateAt(d), trips, DefaultThreshold, includeCanceled,
                              f[1], f[2])
    \/ /\ apiCall = NoCall
       /\ \E perDay \in PerDayAggregates : MergeDays(perDay)

NextSetup ==
    \E d \in {PollDay - 1, PollDay}, trips \in SetupTrips,
       setupFails \in BOOLEAN, readFails \in BOOLEAN, writeFails \in BOOLEAN :
       RequestWithSetup(DateAt(d), trips, DefaultThreshold, setupFails,
                        readFails, writeFails)

\* The tracer runs on the Monday at noon against a day's observations.
InitTrace ==
    /\ calendar = OtpCalendar
    /\ calendar_dates = {}
    /\ svcCall = NoCall
    /\ gtfs_versions = OtpVersions
    /\ verCall = NoCall
    /\ now = DateAt(PollDay) + 12 * 60
    /\ blocks = TraceBlocks
    /\ stops = {}
    /\ vehicles = {}
    /\ block_data = {}
    /\ started = 0
    /\ cycles = [c \in 1..MaxCycles |-> IdleCycle]
    /\ InitCache

\* The day's observations are stored before the request arrives.
NextTrace ==
    \/ /\ apiCall = NoCall
       /\ \E r \in TraceReports : ObserveTrip(r[1], r[2])
    \/ \E blockId \in TraceBlockIds : BlockDetailsEndpoint(DateAt(PollDay), blockId)
    \/ TraceStep
    \/ TraceReturns

\* The tracer is started from a bus id after the day's observations.
NextSeed ==
    \/ /\ apiCall = NoCall
       /\ \E r \in SeedReports : ObserveAt(r[1], r[2], r[3])
    \/ \E busId \in Buses : BlockDetailsForBus(DateAt(PollDay), busId)
    \/ TraceStep
    \/ TraceReturns

\* The cancellations on record are any of those of block B1, with or without
\* the three days of block B2; no poll stores another during the requests.
InitStreak ==
    /\ calendar = {}
    /\ calendar_dates = StreakCalendarDates
    /\ svcCall = NoCall
    /\ gtfs_versions = StreakVersions
    /\ verCall = NoCall
    /\ now = DateAt(11)
    /\ blocks = StreakBlocks
    /\ stops = {}
    /\ vehicles = {}
    /\ block_data = {}
    /\ started = 0
    /\ cycles = [c \in 1..MaxCycles |-> IdleCycle]
    /\ cache = {}
    /\ apiCall = NoCall
    /\ cacheTableInitialized = FALSE
    /\ \E some \in SUBSET StreakCancellations, chain \in {{}, StreakChain} :
          canceled = some \cup chain

NextStreak ==
    \E d \in {5, 9, 10}, blockId \in {"B1", "B2", "B9"} :
        CancellationStreak(DateAt(d) + 12 * 60, blockId)

\* A database that holds the first version; feeds are imported on later days.
InitFeed ==
    /\ calendar = {}
    /\ calendar_dates = {[gtfs_version |-> 1, service_id |-> "A", date |-> 1,
                          exception_type |-> 1]}
    /\ svcCall = NoCall
    /\ gtfs_versions = {[version |-> 1, import_date |-> 1]}
    /\ verCall = NoCall
    /\ now = DateAt(11)
    /\ blocks = FeedFirstBlocks
    /\ stops = FeedFirstStops
    /\ vehicles = {}
    /\ block_data = {}
    /\ started = 0
    /\ cycles = [c \in 1..MaxCycles |-> IdleCycle]
    /\ InitCache

NextFeed ==
    \E stopTimes \in FeedStopTimes : importGtfs(LastVersion + 1, FeedTrips, stopTimes)

InitWalk ==
    /\ calendar = {}
    /\ calendar_dates = StreakCalendarDates
    /\ svcCall = NoCall
    /\ gtfs_versions = WalkVersions
    /\ verCall = NoCall
    /\ now = DateAt(11)
    /\ blocks = StreakBlocks
    /\ stops = {}
    /\ vehicles = {}
    /\ block_data = {}
    /\ started = 0
    /\ cycles = [c \in 1..MaxCycles |-> IdleCycle]
    /\ cache = {}
    /\ apiCall = NoCall
    /\ cacheTableInitialized = FALSE
    /\ canceled \in SUBSET WalkCancellations

NextWalk ==
    \/ \E d \in WalkRequestDays, blockId \in {"B1", "B2"} :
          StreakStarted(DateAt(d) + 12 * 60, blockId)
    \/ \E driverRefuses \in BOOLEAN : StreakDayBack(driverRefuses)

\* Writes and reads of the day before the first day of the schedule.
NextCache ==
    \E frequencyFilter \in CacheFilters, routeId \in CacheRouteIds, fails \in BOOLEAN :
        \/ \E data \in CachePayloads :
              CallSetCachedDailyStats(DateAt(PollDay - 1), DefaultThreshold, FALSE,
                                      frequencyFilter, routeId, data, fails)
        \/ CallGetCachedDailyStats(DateAt(PollDay - 1), DefaultThreshold, FALSE,
                                   frequencyFilter, routeId, fails)

\* The cache holds any of the rows when the range is invalidated.
InitInvalidate ==
    /\ calendar = OtpCalendar
    /\ calendar_dates = {}
    /\ svcCall = NoCall
    /\ gtfs_versions = OtpVersions
    /\ verCall = NoCall
    /\ now = OtpStart
    /\ blocks = OtpBlocks
    /\ stops = {}
    /\ vehicles = {}
    /\ block_data = {}
    /\ started = 0
    /\ cycles = [c \in 1..MaxCycles |-> IdleCycle]
    /\ cache \in SUBSET CachedRows
    /\ apiCall = NoCall
    /\ cacheTableInitialized = FALSE
    /\ canceled = {}

NextInvalidate ==
    \E startDay \in CachedDays, endDay \in CachedDays, fails \in BOOLEAN :
        CallInvalidateCacheForDateRange(DateAt(startDay), DateAt(endDay), fails)

\* Two runs of the Monday's pass while the clock advances and observations of
\* the Monday's trip are stored.
NextComputations ==
    \/ AdvanceClock
    \/ \E delay \in ObservedDelays : InsertObservation("b1", "101", delay)
    \/ StartComputations(DateAt(PollDay))
    \/ \E i \in 1..2 : ComputationStep(i)

\* The lists of delays: every list of up to four of three values, in every
\* order, and the lists n, n - 1, ..., 1 of five to twelve and of twenty values.
StatsValues == {1, 4, 6}
StatsLengths == (5..12) \cup {20}
Descending(n) == [i \in 1..n |-> n + 1 - i]
StatsLists ==
    UNION {[1..n -> StatsValues] : n \in 0..4}
        \cup {Descending(n) : n \in StatsLengths}

NextStats == \E delays \in StatsLists : CallWithStats(delays)

\* A poll runs around midnight, around 03:00 and during the day of the Monday
\* and the Tuesday; a vehicle's timestamp is that of the poll or up to two
\* minutes older, and its trip started on the day of the poll or the day
\* before.
StampInstants ==
    {DateAt(d) + m : d \in {PollDay, PollDay + 1},
                     m \in {0, 1, 2 * 60 + 59, 3 * 60, 10 * 60, 23 * 60 + 59}}
StampAges == {0, 1, 2}

InitStamp ==
    /\ calendar = OtpCalendar
    /\ calendar_dates = {}
    /\ svcCall = NoCall
    /\ gtfs_versions = OtpVersions
    /\ verCall = NoCall
    /\ now \in StampInstants
    /\ blocks = OtpBlocks
    /\ stops = {}
    /\ vehicles = {}
    /\ block_data = {}
    /\ started = 0
    /\ cycles = [c \in 1..MaxCycles |-> IdleCycle]
    /\ InitCache

NextStamp ==
    \E hasTrip \in BOOLEAN, daysBefore \in {0, 1}, age \in StampAges :
        CallTimestampToTimeString(hasTrip, getDate(now) - daysBefore, now - age)

\* The rows of a trip of the current service day or the day before whose
\* bus was last observed, with or without a next stop, at the time of the
\* request or 1, 31 or 90 minutes before it, and of a trip never observed.
DetailAges == {0, 1, 31, 90}
ExtendedTime(minutes) == <<minutes \div 60, minutes % 60, 0>>
DetailRows(date) ==
    {[next_stop_id |-> n, actual_end_time |-> ExtendedTime(now - age - date),
      end_time |-> <<10, 30, 0>>, second_last_stop_time |-> s] :
        n \in {"", "S1"}, s \in {NULL, <<10, 28, 0>>},
        age \in {a \in DetailAges : now - a > date + 3 * 60}}
    \cup {[next_stop_id |-> "", actual_end_time |-> NULL,
           end_time |-> <<10, 30, 0>>, second_last_stop_time |-> NULL]}

NextDetail ==
    \E daysBefore \in {0, 1} :
        \E v \in DetailRows(getDateFromTimestamp(now) - daysBefore * MinutesPerDay) :
            CallTripDetail(v, getDateFromTimestamp(now) - daysBefore * MinutesPerDay)

NextDate ==
    \E time \in LocalInstants :
        \/ CallDateFunction("getDateFromTimestamp", time)
        \/ CallDateFunction("getCurrentDate", time)

\* The days of 2024.
NextBoundaries == \E day \in 1..366 : CallGetServiceDayBoundaries(day)

NextBucket ==
    \/ AdvanceClock
    \/ /\ apiCall = NoCall
       /\ \E trips \in BucketTrips :
             AggregateRequest(DateAt(PollDay), trips, DefaultThreshold, FALSE, "", "")

NextPoll == PollStep(PollEntities, 0..MaxEntities, {<<>>})
NextDelay == PollStep(DelayEntities, {1}, DelayTripFeeds)

SpecSched == Init /\ [][NextSched]_vars
SpecVer == Init /\ [][NextVer]_vars
SpecPoll == InitIngest /\ [][NextPoll]_vars
SpecDelay == InitIngest /\ [][NextDelay]_vars
SpecOtp == InitOtp /\ [][NextOtp]_vars
SpecTrip == InitTrip /\ [][NextTrip]_vars
SpecAgg == InitAgg /\ [][NextAgg]_vars
SpecSetup == InitOtp /\ [][NextSetup]_vars
SpecStreak == InitStreak /\ [][NextStreak]_vars
SpecCache == InitOtp /\ [][NextCache]_vars
SpecBucket == InitOtp /\ [][NextBucket]_vars
SpecBoundaries == InitOtp /\ [][NextBoundaries]_vars
SpecDate == InitOtp /\ [][NextDate]_vars
SpecComputations == InitOtp /\ [][NextComputations]_vars
SpecInvalidate == InitInvalidate /\ [][NextInvalidate]_vars
SpecTrace == InitTrace /\ [][NextTrace]_vars /\ WF_vars(NextTrace)
SpecSeed == InitTrace /\ [][NextSeed]_vars
SpecStats == InitOtp /\ [][NextStats]_vars
SpecStamp == InitStamp /\ [][NextStamp]_vars
SpecDetail == InitStamp /\ [][NextDetail]_vars
SpecFeed == InitFeed /\ [][NextFeed]_vars
\* The handler runs on from each await to the next.
SpecWalk == InitWalk /\ [][NextWalk]_vars /\ WF_vars(NextWalk)

(***************************************************************************)
(* Claims about the schedule resolver                                      *)
(***************************************************************************)
\* The flag a calendar row carries for one weekday.
WeekdayFlag(row, day) ==
    CASE day = 0 -> row.sunday
      [] day = 1 -> row.monday
      [] day = 2 -> row.tuesday
      [] day = 3 -> row.wednesday
      [] day = 4 -> row.thursday
      [] day = 5 -> row.friday
      [] OTHER   -> row.saturday

\* The calendar rule of the schedule: the row's flag for the date's weekday
\* is 1 and its validity range covers the date.
RuleSelects(row, gtfsVersion, date) ==
    /\ row.gtfs_version = gtfsVersion
    /\ WeekdayFlag(row, getDay(date)) = 1
    /\ row.start_date <= date
    /\ row.end_date >= date

ExceptionsFor(gtfsVersion, date) ==
    {e \in calendar_dates : e.gtfs_version = gtfsVersion /\ e.date = date}

\* C3: getServiceIds(version, date) contains every service id with a calendar
\* row of that version whose flag for the date's weekday is 1 and whose range
\* covers the date, unless a removal exception exists for the date, whatever
\* the row's other six weekday flags are.
C3_WeekdayFlagSelects ==
    svcCall.called =>
        \A row \in calendar :
            ( /\ RuleSelects(row, svcCall.gtfsVersion, svcCall.date)
              /\ ~ \E e \in ExceptionsFor(svcCall.gtfsVersion, svcCall.date) :
                     e.service_id = row.service_id /\ e.exception_type # 1 )
            => row.service_id \in svcCall.result

\* C4: an exception of type 1 for the exact date puts its service id in the
\* result of getServiceIds even when no calendar row selects it; an exception
\* of any other type removes its service id even when a calendar row selects it.
C4_ExceptionsOverride ==
    svcCall.called =>
        \A e \in ExceptionsFor(svcCall.gtfsVersion, svcCall.date) :
            /\ e.exception_type = 1 => e.service_id \in svcCall.result
            /\ e.exception_type # 1 => e.service_id \notin svcCall.result

\* C4 witness: one call where service a is off by the weekday rule and has an
\* addition, and service b is selected by the calendar query and has a removal.
C4_Witness ==
    /\ svcCall.called
    /\ \E a, b \in ExceptionsFor(svcCall.gtfsVersion, svcCall.date) :
          /\ a.exception_type = 1
          /\ ~ \E row \in calendar :
                 row.service_id = a.service_id
                 /\ RuleSelects(row, svcCall.gtfsVersion, svcCall.date)
          /\ a.service_id \in svcCall.result
          /\ b.exception_type # 1
          /\ \E row \in calendar :
                 /\ row.service_id = b.service_id
                 /\ CalendarRowSelected(row, dateToServiceIdQuery(svcCall.date),
                                        svcCall.gtfsVersion, svcCall.date)
          /\ b.service_id \notin svcCall.result

\* C5: getGtfsVersion(date) returns the highest version number among the
\* versions whose import date is <= date, also when import dates do not
\* increase with version numbers.
C5_HighestVersionReturned ==
    verCall.called =>
        LET eligible == {r \in gtfs_versions : r.import_date <= verCall.date} IN
        eligible # {} =>
            /\ verCall.result.defined
            /\ \A r \in eligible : r.version <= verCall.result.version


(***************************************************************************)
(* Claims about the realtime ingestion                                     *)
(***************************************************************************)
\* The writes a cycle has launched so far.
Promises(c) ==
    IF cycles[c].pc \in {"idle", "fetching"} THEN <<>> ELSE cycles[c].promises

KeyUnique(rows) ==
    \A r1, r2 \in rows :
        (r1.date = r2.date /\ r1.trip_id = r2.trip_id) => r1 = r2

\* C7: block_data holds at most one trip start per (date, trip id), and a
\* trip start that exists is never changed or removed by a later step of any
\* poll.
C7_TripStartOncePerKey ==
    [][ /\ \A r \in block_data : r \in block_data'
        /\ KeyUnique(block_data') ]_vars

\* C7 witness: a write of another bus reporting the same trip on the same date
\* has settled, and the trip start still names the first bus.
C7_Witness ==
    \E r \in block_data, c \in 1..MaxCycles :
        \E k \in DOMAIN Promises(c) :
            LET p == Promises(c)[k] IN
            /\ Settled(p)
            /\ p.date = r.date
            /\ p.row.trip_id = r.trip_id
            /\ p.row.id # r.bus_id
            /\ p.row \in vehicles

PendingWrite(promise) == promise.stage \in {"insertVehicle", "insertBlockData"}

\* C8: for any two cycles, every write of the earlier one has settled before
\* the first write of the later one begins.
C8_NoOverlappingWrites ==
    \A c1, c2 \in 1..MaxCycles :
        (c1 < c2 /\ Promises(c2) # <<>>) =>
            \A k \in DOMAIN Promises(c1) : ~PendingWrite(Promises(c1)[k])

\* C9: a cycle in which either response is not OK rejects, launches no write
\* and leaves no observation of its own in vehicles.
C9_FailedResponseAborts ==
    \A c \in 1..MaxCycles :
        ( /\ cycles[c].pc \notin {"idle", "fetching"}
          /\ (~cycles[c].ok[1] \/ ~cycles[c].ok[2]) )
        => /\ cycles[c].pc = "rejected"
           /\ cycles[c].promises = <<>>
           /\ ~ \E r \in vehicles : r.time = cycles[c].time

\* C9 witness: the position feed answered OK with entities in it, the trip
\* feed did not, and the cycle has rejected.
C9_Witness ==
    \E c \in 1..MaxCycles :
        /\ cycles[c].pc = "rejected"
        /\ cycles[c].ok = <<TRUE, FALSE>>
        /\ cycles[c].size > 0
        /\ cycles[c].promises = <<>>

\* Minutes of a timestamp counted from the midnight of a service date.
ExtendedMinutes(date, timestamp) == timestamp - date

\* C10: when the first trip update matching the reported trip id carries a
\* first stop-time prediction and the stop time row of (trip id, stop id, stop
\* sequence) exists, the persisted observation has delay_min equal to predicted
\* minus scheduled arrival in minutes and next_stop_id equal to the predicted
\* stop, whatever the difference is, zero included.
C10_DelayPersisted ==
    \A c \in 1..MaxCycles : \A k \in DOMAIN Promises(c) :
        LET p == Promises(c)[k]
            match == FirstMatch(cycles[c].tripFeed, p.recievedTripId)
        IN (p.row \in vehicles /\ match # <<>> /\ match[1].stopTimeUpdate # <<>>) =>
             LET prediction == match[1].stopTimeUpdate[1] IN
             \A st \in stops :
                 ( /\ st.trip_id = p.row.trip_id
                   /\ st.stop_id = prediction.stopId
                   /\ st.stop_sequence = prediction.stopSequence )
                 => /\ p.row.delay_min =
                         Some(ExtendedMinutes(p.date, prediction.arrivalTime)
                              - timeToMinutes(st.arrival_time))
                    /\ p.row.next_stop_id = prediction.stopId


(***************************************************************************)
(* Claims about the on-time-performance cache                              *)
(***************************************************************************)
\* The service day in progress: the day of now, the day before until 03:00.
CurrentServiceDay == toDateString(getDateFromTimestamp(now))

\* C1: in every reachable state the cache holds no row whose service date is
\* the current service date.
C1_NoCacheRowForCurrentServiceDay ==
    \A r \in cache : r.key.service_date # CurrentServiceDay

\* C2: a request whose range includes the service day current at the time of
\* the request never takes that day's aggregate from the cache; the counts it
\* uses for the day are those the day's query gives at the time of the request.
C2_CurrentDayComputedAtRequest ==
    (apiCall.called /\ apiCall.op = "onTimePerformance") =>
        \A k \in DOMAIN apiCall.perDay :
            apiCall.perDay[k].day = apiCall.serviceDay =>
                /\ ~apiCall.perDay[k].cached
                /\ apiCall.perDay[k].data = apiCall.perDay[k].fresh

\* The days without a schedule version whose import date is on or before them.
HasNoVersion(day) == getGtfsVersionRows(day) = {}

\* C6: when a day a request needs has no schedule version, the request ends
\* with an explicit no-data failure; no day of an on-time-performance range is
\* silently left out of a successful reply, and blockCancelCount does not go on
\* with an undefined version.
C6_NoVersionFailsExplicitly ==
    /\ (apiCall.called /\ apiCall.op = "onTimePerformance" /\ apiCall.statusCode # 400) =>
          \A day \in apiCall.date..apiCall.endDate :
              HasNoVersion(day) => apiCall.statusCode = 404
    /\ (apiCall.called /\ apiCall.op = "blockCancelCount") =>
          (HasNoVersion(apiCall.date) =>
              apiCall.gtfsVersion.defined \/ apiCall.statusCode = 404)

(***************************************************************************)
(* Claims about trip-id resolution                                         *)
(***************************************************************************)
\* The scheduled trips a placeholder is matched against.
MatchingTrips(call) ==
    {b \in blocks : /\ b.route_id = call.routeId
                    /\ b.start_time = call.startTime
                    /\ b.service_id \in call.serviceIds}

TripIdResolved(call) ==
    IF parseInt(call.recievedTripId) > 0
    THEN call.result = call.recievedTripId
    ELSE IF MatchingTrips(call) = {}
         THEN call.result = call.recievedTripId
         ELSE \E b \in MatchingTrips(call) :
                 /\ call.result = b.trip_id
                 /\ \A o \in MatchingTrips(call) : o.gtfs_version <= b.gtfs_version

\* C11: getRealTripId returns a positive received id unchanged; for a
\* placeholder it returns the id of a scheduled trip of the same route and
\* start time among the given service ids, from the highest schedule version
\* that has such a trip; without a match it returns the placeholder itself.
C11_TripIdResolved ==
    [][(apiCall' # apiCall /\ apiCall'.op = "getRealTripId")
          => TripIdResolved(apiCall')]_vars

\* A placeholder was resolved to the trip of version 2 while version 1 holds
\* another matching trip.
C11_Witness ==
    /\ apiCall.called
    /\ apiCall.op = "getRealTripId"
    /\ apiCall.recievedTripId = "-7"
    /\ \E hi \in MatchingTrips(apiCall), lo \in MatchingTrips(apiCall) :
          /\ hi.gtfs_version = 2
          /\ lo.gtfs_version = 1
          /\ lo.trip_id # hi.trip_id
          /\ apiCall.result = hi.trip_id

(***************************************************************************)
(* Claims about the aggregation                                            *)
(***************************************************************************)
Aggregated == apiCall.called /\ apiCall.op = "aggregate"

\* The positions of the request's trip rows that satisfy a condition.
CanceledRows(trips) == {i \in DOMAIN trips : trips[i].schedule_relationship # NULL}
MeasuredRows(trips) ==
    {i \in DOMAIN trips : trips[i].schedule_relationship = NULL
                           /\ trips[i].avg_delay_min # NULL}
WithinThreshold(trips, threshold) ==
    {i \in MeasuredRows(trips) :
        /\ trips[i].avg_delay_min[1] <= threshold * trips[i].avg_delay_min[2]
        /\ -trips[i].avg_delay_min[1] <= threshold * trips[i].avg_delay_min[2]}

\* C12: in a day's aggregation every scheduled trip counts in totalScheduled;
\* a canceled trip counts in canceledTrips and is evaluated, as not on time,
\* only when includeCanceled is set; a trip that is not canceled is evaluated
\* when its metric is not null and is on time iff |metric| <= threshold.
C12_DayCounts ==
    Aggregated =>
        LET counts == apiCall.dayAgg.overall.counts
            trips == apiCall.trips
        IN /\ counts.totalScheduled = Len(trips)
           /\ counts.canceledTrips = Cardinality(CanceledRows(trips))
           /\ counts.evaluatedTrips = Cardinality(MeasuredRows(trips))
                 + (IF apiCall.includeCanceled
                    THEN Cardinality(CanceledRows(trips)) ELSE 0)
           /\ counts.onTimeTrips =
                 Cardinality(WithinThreshold(trips, apiCall.thresholdMinutes))

\* A day with a trip whose delay equals the threshold, counted on time, and a
\* canceled trip that is evaluated because includeCanceled is set.
C12_Witness ==
    /\ Aggregated
    /\ apiCall.includeCanceled
    /\ Len(apiCall.trips) = 2
    /\ apiCall.trips[1].schedule_relationship = NULL
    /\ apiCall.trips[1].avg_delay_min = <<-5, 1>>
    /\ apiCall.trips[2].schedule_relationship # NULL
    /\ apiCall.dayAgg.overall.counts =
          [totalScheduled |-> 2, evaluatedTrips |-> 2, onTimeTrips |-> 1,
           canceledTrips |-> 1]

Merged == apiCall.called /\ apiCall.op = "merge"

RECURSIVE SumOf(_, _, _)
SumOf(perDay, field, i) ==
    IF i = 0 THEN 0 ELSE perDay[i].counts[field] + SumOf(perDay, field, i - 1)
RECURSIVE DelaysOf(_, _)
DelaysOf(perDay, i) ==
    IF i = 0 THEN <<>> ELSE DelaysOf(perDay, i - 1) \o perDay[i].delays
Reversed(seq) == [i \in DOMAIN seq |-> seq[Len(seq) + 1 - i]]
Occurrences(seq, x) == Cardinality({i \in DOMAIN seq : seq[i] = x})
SameBag(a, b) ==
    \A x \in {a[i] : i \in DOMAIN a} \cup {b[i] : i \in DOMAIN b} :
        Occurrences(a, x) = Occurrences(b, x)
CountFields == {"totalScheduled", "evaluatedTrips", "onTimeTrips", "canceledTrips"}
TenEight == [totalScheduled |-> 10, evaluatedTrips |-> 10, onTimeTrips |-> 8, canceledTrips |-> 0]
FiveOne == [totalScheduled |-> 5, evaluatedTrips |-> 5, onTimeTrips |-> 1, canceledTrips |-> 0]

\* C13: the merge of per-day aggregates sums each count and concatenates the
\* delay lists; the counts and the delays as a collection do not depend on
\* the order of the days; the percentage of the merged result is the sum of
\* onTimeTrips over the sum of evaluatedTrips times 100, so 10 evaluated / 8
\* on time and 5 evaluated / 1 on time give 60.
C13_MergeSums ==
    Merged =>
        LET perDay == apiCall.perDay
            merged == apiCall.merged
            other == MergeOverall(createAggregateWithDelays, Reversed(perDay))
        IN /\ \A f \in CountFields : merged.counts[f] = SumOf(perDay, f, Len(perDay))
           /\ merged.delays = DelaysOf(perDay, Len(perDay))
           /\ other.counts = merged.counts
           /\ SameBag(other.delays, merged.delays)
           /\ IF SumOf(perDay, "evaluatedTrips", Len(perDay)) = 0
              THEN apiCall.onTimePct = NULL
              ELSE /\ apiCall.onTimePct # NULL
                   /\ apiCall.onTimePct[1] * SumOf(perDay, "evaluatedTrips", Len(perDay))
                        = 100 * SumOf(perDay, "onTimeTrips", Len(perDay))
                          * apiCall.onTimePct[2]
           /\ (Len(perDay) = 2 /\ perDay[1].counts = TenEight
                /\ perDay[2].counts = FiveOne)
                 => apiCall.onTimePct[1] = 60 * apiCall.onTimePct[2]

\* The two days of the example were merged, with delays on both days.
C13_Witness ==
    /\ Merged
    /\ Len(apiCall.perDay) = 2
    /\ apiCall.perDay[1].counts = TenEight
    /\ apiCall.perDay[2].counts = FiveOne
    /\ apiCall.perDay[1].delays = <<<<9, 1>>, <<3, 1>>>>
    /\ apiCall.perDay[2].delays = <<<<4, 1>>>>
    /\ apiCall.merged.counts.evaluatedTrips = 15
    /\ apiCall.merged.counts.onTimeTrips = 9

\* The trip rows of a request whose route passes the request's filters.
FilterMatches(call) ==
    {i \in DOMAIN call.trips :
        /\ call.routeId = "" \/ call.trips[i].route_id = call.routeId
        /\ call.frequencyFilter = "frequent"
              => call.trips[i].route_id \in frequentRouteIds
        /\ call.frequencyFilter = "non-frequent"
              => call.trips[i].route_id \notin frequentRouteIds}

RECURSIVE BucketTotal(_, _)
BucketTotal(timeOfDay, i) ==
    IF i = 0 THEN 0
    ELSE timeOfDay[timeBuckets[i].label].totalScheduled + BucketTotal(timeOfDay, i - 1)

\* C14: with a route or frequency filter the time-of-day buckets of the
\* response count only the trips of matching routes, whether or not the range
\* holds the current service day, and the buckets' totalScheduled sum to at
\* most the filtered overall totalScheduled.
C14_FilteredBuckets ==
    (Aggregated /\ (apiCall.routeId # "" \/ apiCall.frequencyFilter # "")) =>
        /\ \A l \in BucketLabels :
              apiCall.timeOfDay[l].totalScheduled =
                 Cardinality({i \in FilterMatches(apiCall) :
                                 bucketForTrip(apiCall.trips[i]) = l})
        /\ BucketTotal(apiCall.timeOfDay, Len(timeBuckets))
              <= apiCall.overall.totalScheduled

\* C15: when a cache operation of a request fails (table setup, read or
\* upsert), the request still succeeds with the aggregate that an empty cache
\* gives for the day's trips.
C15_CacheFailureDegrades ==
    (apiCall.called /\ apiCall.op = "requestWithSetup" /\ apiCall.failed # {}) =>
        /\ apiCall.statusCode = 200
        /\ apiCall.overall =
              AggregateTrips(emptyAggregateBundle, apiCall.trips,
                             apiCall.thresholdMinutes, FALSE).overall.counts

(***************************************************************************)
(* Claims about the block tracer                                           *)
(***************************************************************************)
Tracing == apiCall.called /\ apiCall.op = "blockDetails"
TraceDone == Tracing /\ apiCall.pc = "done"

\* The buses that ran a trip of a block, and the blocks a bus touched, on the
\* day of the request, as the handler's two queries give them.
BusesOfBlock(blockId) ==
    LET busIds == getBlockData(blockId, TraceVersion(DateAt(PollDay)),
                      TraceServiceIds(DateAt(PollDay)),
                      getServiceDayBoundariesWithPadding(DateAt(PollDay)))
    IN {busIds[i] : i \in DOMAIN busIds} \ {""}
BlocksOfBus(busId) ==
    getBlocksForBus(busId, TraceVersion(DateAt(PollDay)),
        TraceServiceIds(DateAt(PollDay)),
        getServiceDayBoundariesWithPadding(DateAt(PollDay)))

\* The blocks reachable from a set of blocks by alternating the two steps.
RECURSIVE ReachableBlocks(_)
ReachableBlocks(from) ==
    LET next == from \cup UNION {BlocksOfBus(bus) :
                              bus \in UNION {BusesOfBlock(b) : b \in from}}
    IN IF next = from THEN from ELSE ReachableBlocks(next)

\* C16: the result of the trace holds every block reachable from the seed
\* block by alternating "bus ran a trip of this block" and "block touched by
\* this bus", also through a bus that first appears in a block other than
\* the seed.
C16_TraceComplete ==
    TraceDone => ReachableBlocks({apiCall.blockId}) \subseteq DOMAIN apiCall.blocks

\* C17: the trace ends for every relation of buses and blocks, cyclic ones
\* included, and queries the blocks of each bus at most once per request.
C17_TraceTerminates ==
    /\ [](Tracing => \A bus \in Buses : apiCall.expansions[bus] <= 1)
    /\ <>TraceDone

\* Bus b1 and bus b2 both ran trips of block B1 and of block B2; the trace of
\* B1 has ended with each bus expanded once.
C17_Witness ==
    /\ TraceDone
    /\ apiCall.blockId = "B1"
    /\ BusesOfBlock("B1") = Buses
    /\ BusesOfBlock("B2") = Buses
    /\ \A bus \in Buses : apiCall.expansions[bus] = 1
    /\ DOMAIN apiCall.blocks = {"B1", "B2"}


(***************************************************************************)
(* The cancellation streak                                                 *)
(***************************************************************************)
StreakCalled == apiCall.called /\ apiCall.op = "cancellationStreak"

\* The trips the schedule of the day gives the block.
ScheduledTrips(day, blockId) ==
    {b \in blocks : /\ b.gtfs_version = getGtfsVersion(day).version
                    /\ b.service_id \in getServiceIds(getGtfsVersion(day).version,
                                                      toDateString(day))
                    /\ b.block_id = blockId}

HasCancellation(b, day) ==
    \E c \in canceled : /\ c.trip_id = b.trip_id
                        /\ c.date = toDateString(day)
                        /\ c.schedule_relationship # 0

FullyCanceled(day, blockId) ==
    /\ ScheduledTrips(day, blockId) # {}
    /\ \A b \in ScheduledTrips(day, blockId) : HasCancellation(b, day)

\* C18: a request for a block that has no scheduled trip on the date, or that
\* has a scheduled trip without a cancellation record for the date (a trip
\* canceled only on other dates included), is answered daysCanceled = 0 and
\* allDays = false.
C18_NotCanceledGivesZero ==
    (StreakCalled /\ ~FullyCanceled(DateAt(apiCall.date), apiCall.blockId))
        => (apiCall.daysCanceled = 0 /\ apiCall.allDays = FALSE)

Signature(trips) == {<<b.start_time, b.route_id, b.route_direction>> : b \in trips}

SameSignature(day, date, blockId) ==
    /\ Cardinality(ScheduledTrips(day, blockId)) = Cardinality(ScheduledTrips(date, blockId))
    /\ Signature(ScheduledTrips(day, blockId)) = Signature(ScheduledTrips(date, blockId))

\* The walk back as stated: a differing day adds nothing and the third in a
\* row ends the walk with allDays true; a same-signature day adds one when it
\* is fully canceled and ends the walk with allDays false when it is not.
RECURSIVE StatedWalk(_, _, _, _, _)
StatedWalk(date, blockId, daysBack, counted, differing) ==
    IF differing > 2
    THEN [daysCanceled |-> counted, allDays |-> TRUE]
    ELSE IF ~SameSignature(date - daysBack * MinutesPerDay, date, blockId)
    THEN StatedWalk(date, blockId, daysBack + 1, counted, differing + 1)
    ELSE IF FullyCanceled(date - daysBack * MinutesPerDay, blockId)
    THEN StatedWalk(date, blockId, daysBack + 1, counted + 1, 0)
    ELSE [daysCanceled |-> counted, allDays |-> FALSE]

\* C19: when the queried date is fully canceled, the answer is that of the
\* walk back: daysCanceled is 1 plus the number of prior same-signature fully
\* canceled days met before the walk ends, allDays is false when the walk
\* ended at a same-signature day that is not fully canceled and true when it
\* ended at the third differing day in a row.  Three canceled days preceded by
\* a weekend and a running day give daysCanceled = 3 and allDays = false.
C19_WalkBack ==
    (StreakCalled /\ FullyCanceled(DateAt(apiCall.date), apiCall.blockId))
        => /\ apiCall.daysCanceled =
                StatedWalk(DateAt(apiCall.date), apiCall.blockId, 1, 1, 0).daysCanceled
           /\ apiCall.allDays =
                StatedWalk(DateAt(apiCall.date), apiCall.blockId, 1, 1, 0).allDays


(***************************************************************************)
(* The daily cache read back                                               *)
(***************************************************************************)
Wrote(call) == call.called /\ call.op = "setCachedDailyStats" /\ ~call.failed
ReadBack(call) == call.called /\ call.op = "getCachedDailyStats" /\ ~call.failed

\* A null filter or route id stands for the unfiltered key.
BaseOf(value) == IF value = NoString THEN "" ELSE value

StatedKey(call) ==
    <<call.serviceDate, call.metric, call.thresholdMinutes, call.includeCanceled,
      BaseOf(call.frequencyFilter), BaseOf(call.routeId)>>

RowKey(r) ==
    <<r.key.service_date, r.key.metric, r.key.threshold_minutes,
      r.key.include_canceled, r.key.frequency_filter, r.key.route_id>>

RowsOfKey(table, key) == {r \in table : RowKey(r) = key}

\* A write leaves exactly one row of its key, holding the payload written, and
\* the rows of the other keys as they were.
WriteReplaces ==
    Wrote(apiCall') =>
        /\ Cardinality(RowsOfKey(cache', StatedKey(apiCall'))) = 1
        /\ \A r \in RowsOfKey(cache', StatedKey(apiCall')) :
              Some(r.data) = apiCall'.payload
        /\ cache' \ RowsOfKey(cache', StatedKey(apiCall'))
              = cache \ RowsOfKey(cache, StatedKey(apiCall'))

\* A read returns the payload of the row of its key, null when there is none.
ReadReturnsRow ==
    ReadBack(apiCall') =>
        /\ \A r \in RowsOfKey(cache, StatedKey(apiCall')) :
              apiCall'.payload = Some(r.data)
        /\ RowsOfKey(cache, StatedKey(apiCall')) = {} => apiCall'.payload = NULL

\* A read that follows a write of the same key returns the payload written.
ReadAfterWrite ==
    (Wrote(apiCall) /\ ReadBack(apiCall') /\ StatedKey(apiCall) = StatedKey(apiCall'))
        => apiCall'.payload = apiCall.payload

\* C20: for a past service date, a read that follows a write of the same key
\* returns the payload written; a second write of the key replaces the first,
\* so that reads return the second payload and the table holds exactly one
\* row of the key; a null frequencyFilter or routeId is the same key as the
\* empty one, on write and on read.
C20_CacheRoundTrip == [][WriteReplaces /\ ReadReturnsRow /\ ReadAfterWrite]_vars

\* A read with a null filter and a null route id returned the second payload
\* from the single row of the table, which was written under the empty
\* strings.
C20_Witness ==
    /\ ReadBack(apiCall)
    /\ apiCall.frequencyFilter = NoString /\ apiCall.routeId = NoString
    /\ apiCall.payload = Some([overall |-> [createAggregate EXCEPT !.totalScheduled = 1]])
    /\ Cardinality(cache) = 1
    /\ \A r \in cache : r.key.frequency_filter = "" /\ r.key.route_id = ""


(***************************************************************************)
(* Invalidation of a range of days                                         *)
(***************************************************************************)
Invalidated(call) ==
    call.called /\ call.op = "invalidateCacheForDateRange" /\ ~call.failed

InRange(r, call) ==
    call.startDate <= r.key.service_date /\ r.key.service_date <= call.endDate

\* C21: an invalidation removes exactly the cache rows whose service date is
\* within the range, both ends included, whatever their metric, threshold and
\* includeCanceled, and leaves the other rows and every other table as they
\* were.
C21_InvalidateRange ==
    [][Invalidated(apiCall') =>
          /\ cache' = {r \in cache : ~InRange(r, apiCall')}
          /\ UNCHANGED <<schedVars, verVars, pollVars, canceled>>]_vars

\* An invalidation of a range of two days removed rows and left rows of the
\* day before the range.
C21_Witness ==
    /\ Invalidated(apiCall)
    /\ apiCall.startDate < apiCall.endDate
    /\ apiCall.removed >= 4
    /\ cache # {}


(***************************************************************************)
(* Concurrent computations of one cache key                                *)
(***************************************************************************)
Computing == apiCall.called /\ apiCall.op = "computations"

ComputedKeyRows ==
    {r \in cache : r.key = CacheKey(apiCall.date, "avgObserved", DefaultThreshold,
                                    FALSE, "", "")}

BothDone == \A i \in 1..2 : apiCall.comp[i].pc = "done"

\* C22: while and after two computations of one key run, the cache holds at
\* most one row of the key, the row's payload is the whole payload that one of
\* the two wrote, and once both are done and one of them wrote there is
\* exactly one row.
C22_OneWholePayload ==
    Computing =>
        /\ Cardinality(ComputedKeyRows) <= 1
        /\ \A r \in ComputedKeyRows :
              \E i \in 1..2 : apiCall.comp[i].wrote /\ apiCall.comp[i].payload = Some(r.data)
        /\ (BothDone /\ \E i \in 1..2 : apiCall.comp[i].wrote)
              => Cardinality(ComputedKeyRows) = 1

\* Both computations wrote, and their payloads differ because an observation
\* was stored between their queries.
C22_Witness ==
    /\ Computing /\ BothDone
    /\ apiCall.comp[1].wrote /\ apiCall.comp[2].wrote
    /\ apiCall.comp[1].payload # apiCall.comp[2].payload


(***************************************************************************)
(* The pre-warm sweep                                                      *)
(***************************************************************************)
SweepStep ==
    /\ apiCall'.called /\ apiCall'.op = "warmOnTimePerformanceCache"
    /\ (apiCall' # apiCall \/ cache' # cache)

\* The dates of the observations that are the service date of now.
CurrentAmong(days) == {d \in days : d = toDateString(getDateFromTimestamp(now))}

\* The other dates that have a base entry when the sweep starts.
CachedAmong(days) ==
    {d \in days \ CurrentAmong(days) :
        \E r \in cache : r.key = CacheKey(DateAt(d), "avgObserved", DefaultThreshold,
                                          FALSE, "", "")}

\* C23: a sweep goes through every date of the observations: it skips the
\* date that is the current service day, skips every other date that has a
\* base cache entry, and requests each remaining date, whether or not the
\* requests of other dates failed.
C23_SweepHandlesEveryDate ==
    [][SweepStep =>
          /\ apiCall'.count.skipped = Cardinality(CurrentAmong(getAllServiceDays))
          /\ apiCall'.count.alreadyCached = Cardinality(CachedAmong(getAllServiceDays))
          /\ apiCall'.count.warmed + apiCall'.count.failed
                = Cardinality(getAllServiceDays)
                  - Cardinality(CurrentAmong(getAllServiceDays))
                  - Cardinality(CachedAmong(getAllServiceDays))]_vars


(***************************************************************************)
(* The current service day                                                 *)
(***************************************************************************)
\* C24: isCurrentServiceDay(date) is true exactly when the date's day is the
\* service date of now, at every hour of now: the request's containsCurrentDay
\* for its one day says whether the day is the service date of the clock.
C24_CurrentServiceDay ==
    [][(apiCall = NoCall /\ apiCall'.called /\ apiCall'.op = "aggregate")
          => (apiCall'.containsCurrentDay
                 <=> (apiCall'.date = toDateString(getDateFromTimestamp(now))))]_vars


(***************************************************************************)
(* The rule of the service date                                            *)
(***************************************************************************)
DateCalled ==
    apiCall.called /\ apiCall.op \in {"getDateFromTimestamp", "getCurrentDate"}

\* The number of the date among the days that follow the last day of 2022.
RECURSIVE DaysBeforeMonth(_, _)
DaysBeforeMonth(year, month) ==
    IF month = 0 THEN 0
    ELSE DaysBeforeMonth(year, month - 1) + DaysInMonth(year, month - 1)

RECURSIVE DaysBeforeYear(_)
DaysBeforeYear(year) ==
    IF year <= 2022 THEN -365 * (2023 - year)
    ELSE IF year = 2023 THEN 0
    ELSE DaysBeforeYear(year - 1) + (IF IsLeapYear(year - 1) THEN 366 ELSE 365)

Ordinal(date) ==
    DaysBeforeYear(date.year) + DaysBeforeMonth(date.year, date.month) + date.day

IsCalendarDate(date) ==
    /\ date.month \in 0..11
    /\ date.day \in 1..DaysInMonth(date.year, date.month)

\* C25: the service date of an instant is a date of the calendar: the date of
\* the instant when its hour is 3 or more, the date one day before when its
\* hour is less than 3, over the ends of months and years too; getCurrentDate
\* gives the same for the clock's instant.
C25_ThreeHourCutoff ==
    DateCalled =>
        /\ IsCalendarDate(apiCall.result)
        /\ Ordinal(apiCall.result)
              = Ordinal(apiCall.time) - (IF apiCall.time.hours < 3 THEN 1 ELSE 0)

\* At 02:00 on the first of January 2024 the service date is the last of
\* December 2023.
C25_Witness ==
    /\ DateCalled /\ apiCall.op = "getDateFromTimestamp"
    /\ apiCall.time = [year |-> 2024, month |-> 0, day |-> 1, hours |-> 2]
    /\ apiCall.result = [year |-> 2023, month |-> 11, day |-> 31]


(***************************************************************************)
(* The window of a service day                                             *)
(***************************************************************************)
BoundariesCalled ==
    apiCall.called /\ apiCall.op = "getServiceDayBoundariesWithPadding"

\* C26: for a date given as its local midnight the window starts 3 hours
\* after it, at 03:00 on the date, and ends 29 hours after it, at 05:00 on the
\* next date; it lasts 26 hours, and it overlaps the window of the next date
\* by 2 hours.
C26_WindowBoundaries ==
    BoundariesCalled =>
        /\ apiCall.serviceDay.start = apiCall.date + 3 * 60
        /\ apiCall.serviceDay.end = apiCall.date + 29 * 60
        /\ LocalClock(apiCall.serviceDay.start)
              = [day |-> apiCall.day, hours |-> 3, minutes |-> 0]
        /\ LocalClock(apiCall.serviceDay.end)
              = [day |-> apiCall.day + 1, hours |-> 5, minutes |-> 0]
        /\ apiCall.serviceDay.end - apiCall.serviceDay.start = 26 * 60
        /\ apiCall.serviceDay.end - apiCall.nextServiceDay.start = 2 * 60


(***************************************************************************)
(* The buckets of the day                                                  *)
(***************************************************************************)
StatedRanges ==
    [early |-> <<0, 300>>, morning |-> <<300, 540>>, midday |-> <<540, 900>>,
     evening |-> <<900, 1140>>, late |-> <<1140, 1620>>]

StartMinute(trip) == trip.start_time[1] * 60 + trip.start_time[2]

StartsWithin(trip, range) ==
    /\ trip.start_time # NULL
    /\ range[1] <= StartMinute(trip) /\ StartMinute(trip) < range[2]

TripsWithin(trips, range) ==
    Cardinality({i \in DOMAIN trips : StartsWithin(trips[i], range)})

RECURSIVE SumOfBuckets(_, _)
SumOfBuckets(buckets, labels) ==
    IF labels = {} THEN 0
    ELSE LET l == CHOOSE x \in labels : TRUE
         IN buckets[l].counts.totalScheduled + SumOfBuckets(buckets, labels \ {l})

\* C27: each bucket of the day counts the trips whose start minute is in its
\* half-open range, so a trip is in the one bucket that holds its start and a
\* trip without a start, or one that starts at minute 1620 or later, is in
\* none; every trip is counted in the overall and in the aggregate of its
\* route and direction; the buckets together count no more trips than the
\* overall.
C27_OneBucketPerTrip ==
    (apiCall.called /\ apiCall.op = "aggregate") =>
        /\ \A l \in DOMAIN StatedRanges :
              apiCall.dayAgg.buckets[l].counts.totalScheduled
                 = TripsWithin(apiCall.trips, StatedRanges[l])
        /\ apiCall.dayAgg.overall.counts.totalScheduled = Len(apiCall.trips)
        /\ \A i \in DOMAIN apiCall.trips :
              apiCall.dayAgg.routes[<<apiCall.trips[i].route_id,
                                     apiCall.trips[i].route_direction>>]
                    .counts.totalScheduled >= 1
        /\ SumOfBuckets(apiCall.dayAgg.buckets, DOMAIN StatedRanges)
              <= apiCall.dayAgg.overall.counts.totalScheduled

\* A day of two trips, one that starts at 05:00 and one that starts at 27:00:
\* the first is in the morning bucket alone, the second in none, both in the
\* overall.
C27_Witness ==
    /\ apiCall.called /\ apiCall.op = "aggregate"
    /\ Len(apiCall.trips) = 2
    /\ apiCall.trips[1].start_time = <<5, 0, 0>>
    /\ apiCall.trips[2].start_time = <<27, 0, 0>>
    /\ apiCall.dayAgg.buckets.morning.counts.totalScheduled = 1
    /\ SumOfBuckets(apiCall.dayAgg.buckets, DOMAIN StatedRanges) = 1
    /\ apiCall.dayAgg.overall.counts.totalScheduled = 2


(***************************************************************************)
(* The percentages of the response                                         *)
(***************************************************************************)
\* The percentage of one aggregate: null without an evaluated trip, otherwise
\* a quotient with a divisor other than zero that equals
\* onTimeTrips / evaluatedTrips * 100.
PercentOf(entry) ==
    IF entry.counts.evaluatedTrips = 0 THEN entry.onTimePct = NULL
    ELSE /\ entry.onTimePct # NULL
         /\ entry.onTimePct[2] # 0
         /\ entry.onTimePct[1] * entry.counts.evaluatedTrips
               = entry.counts.onTimeTrips * 100 * entry.onTimePct[2]

\* C28: every aggregate of the response (overall, route summary, each route
\* and direction, each route with its directions combined, each bucket)
\* carries a percentage that is null exactly when it has no evaluated trip and
\* otherwise onTimeTrips / evaluatedTrips * 100, never a division by zero.
C28_PercentOrNull ==
    Aggregated =>
        /\ apiCall.percents.overall.counts = apiCall.overall
        /\ PercentOf(apiCall.percents.overall)
        /\ (apiCall.routeId # "") <=> (apiCall.percents.routeSummary # <<>>)
        /\ \A i \in DOMAIN apiCall.percents.routeSummary :
              PercentOf(apiCall.percents.routeSummary[i])
        /\ DOMAIN apiCall.percents.routes = DOMAIN apiCall.dayAgg.routes
        /\ \A k \in DOMAIN apiCall.percents.routes :
              /\ apiCall.percents.routes[k].counts = apiCall.dayAgg.routes[k].counts
              /\ PercentOf(apiCall.percents.routes[k])
        /\ \A r \in DOMAIN apiCall.percents.routesCombined :
              PercentOf(apiCall.percents.routesCombined[r])
        /\ \A l \in BucketLabels :
              /\ apiCall.percents.timeOfDay[l].counts = apiCall.timeOfDay[l]
              /\ PercentOf(apiCall.percents.timeOfDay[l])

\* A response with a route filter whose overall has two evaluated trips, one
\* of them on time (50 percent), and a bucket without an evaluated trip.
C28_Witness ==
    /\ Aggregated
    /\ apiCall.routeId # ""
    /\ apiCall.percents.overall.onTimePct = <<100, 2>>
    /\ apiCall.percents.routeSummary # <<>>
    /\ \E l \in BucketLabels : apiCall.percents.timeOfDay[l].onTimePct = NULL


(***************************************************************************)
(* The seed block of a trace started from a bus                            *)
(***************************************************************************)
\* The bus's observations with a trip id within the service-day window, and
\* the earliest of them by observation time.
SeedObservations(busId, serviceDay) ==
    {v \in vehicles : /\ v.id = busId
                      /\ v.trip_id # NoString
                      /\ v.time > serviceDay.start
                      /\ v.time < serviceDay.end}
EarliestTrips(busId, serviceDay) ==
    {v.trip_id : v \in {x \in SeedObservations(busId, serviceDay) :
        \A o \in SeedObservations(busId, serviceDay) : x.time <= o.time}}
StatedSeedBlocks(busId, serviceDay) ==
    {b.block_id : b \in {x \in blocks : x.trip_id \in EarliestTrips(busId, serviceDay)}}
SeedRequested ==
    apiCall = NoCall /\ apiCall'.called /\ apiCall'.op = "blockDetails"

\* C29: a trace started from a bus id is seeded with the block of the trip of
\* the bus's earliest observation with a trip id within the service-day
\* window; without such an observation, or when that trip is in no block, the
\* request fails and returns no block mapping.
C29_SeedFromEarliestObservation ==
    [][SeedRequested =>
         LET seeds == StatedSeedBlocks(apiCall'.busId,
                          getServiceDayBoundariesWithPadding(apiCall'.date))
         IN IF seeds = {}
            THEN apiCall'.pc = "replied" /\ apiCall'.statusCode = 400
            ELSE apiCall'.pc = "loop" /\ apiCall'.blockId \in seeds]_vars


(***************************************************************************)
(* The settling of a cycle                                                 *)
(***************************************************************************)
\* The promise of a cycle has settled; a write of the cycle is in flight.
CycleSettled(c) == cycles[c].pc \in {"resolved", "rejected"}
InFlight(c) ==
    {k \in DOMAIN Promises(c) : Promises(c)[k].stage \notin {"done", "rejected"}}

\* C30: the promise returned by fetchRealtime settles only after every write
\* launched for a vehicle in that cycle has settled; in particular it is not
\* rejected for one vehicle's failed insert while the insert of another
\* vehicle of the cycle is in flight.
C30_SettlesAfterEveryWrite ==
    \A c \in 1..MaxCycles : CycleSettled(c) => InFlight(c) = {}


(***************************************************************************)
(* The statistics of the delays                                            *)
(***************************************************************************)
StatsCalled == apiCall.called /\ apiCall.op = "withStats"

\* The k-th smallest value of a list, counted from 1: fewer than k values are
\* below it and at least k are not above it.
Smallest(delays, k) ==
    CHOOSE x \in {delays[i] : i \in DOMAIN delays} :
        /\ Cardinality({i \in DOMAIN delays : delays[i] < x}) < k
        /\ Cardinality({i \in DOMAIN delays : delays[i] <= x}) >= k

\* The ceiling of 0.9 * n.
CeilingOfNineTenths(n) == CHOOSE c \in 0..n : 10 * c >= 9 * n /\ 10 * (c - 1) < 9 * n

StatedMedian(delays) ==
    LET n == Len(delays)
    IN IF n % 2 = 1 THEN <<Smallest(delays, (n + 1) \div 2), 1>>
       ELSE <<Smallest(delays, n \div 2) + Smallest(delays, n \div 2 + 1), 2>>

\* C31: for a list of n > 0 delays taken in ascending order, withStats gives
\* as median the middle element for odd n and the mean of the two middle
\* elements for even n, as p90 the element at index max(0, ceil(0.9 n) - 1)
\* and as max the last element; the list 1..10 has median 5.5 and p90 9; for
\* an empty list every delay statistic is null.
C31_MedianP90Max ==
    StatsCalled =>
        LET delays == apiCall.delays
            n == Len(delays)
            result == apiCall.result
        IN IF n = 0
           THEN /\ result.avgDelayMin = NULL
                /\ result.medianDelayMin = NULL
                /\ result.p90DelayMin = NULL
                /\ result.maxDelayMin = NULL
           ELSE /\ result.medianDelayMin = StatedMedian(delays)
                /\ result.p90DelayMin =
                      Smallest(delays,
                          (IF CeilingOfNineTenths(n) - 1 > 0
                           THEN CeilingOfNineTenths(n) - 1 ELSE 0) + 1)
                /\ result.maxDelayMin = Smallest(delays, n)
                /\ delays = Descending(10) =>
                      /\ result.medianDelayMin = <<11, 2>>
                      /\ result.p90DelayMin = 9

\* withStats was called with the ten delays 10, 9, ..., 1.
C31_Witness ==
    /\ StatsCalled
    /\ apiCall.delays = Descending(10)
    /\ apiCall.result.medianDelayMin = <<11, 2>>
    /\ apiCall.result.p90DelayMin = 9
    /\ apiCall.result.maxDelayMin = 10


(***************************************************************************)
(* The cache of a day that is over                                         *)
(***************************************************************************)
\* The service day is over: now is past the end of its window.
DayIsOver(day) == now > getServiceDayBoundariesWithPadding(DateAt(day)).end

\* The aggregate of a day computed from the observations stored now.
AggregateOfStored(key) ==
    WithVersion({}, DateAt(key.service_date), key.metric, key.threshold_minutes,
                key.include_canceled, getGtfsVersion(DateAt(key.service_date))).data

\* C32: once a service day is over, a base cache row of that day holds the
\* aggregate of all the day's stored observations: no row computed while the
\* day was in progress, or before its window began, is left in the cache.
C32_CacheOfFinishedDayIsComplete ==
    \A r \in cache :
        ( /\ DayIsOver(r.key.service_date)
          /\ r.key.frequency_filter = ""
          /\ r.key.route_id = "" )
        => r.data = AggregateOfStored(r.key)


(***************************************************************************)
(* Concurrent starts of one trip                                           *)
(***************************************************************************)
\* The writes launched so far, each named by its cycle and its place.
Launched == {<<c, k>> : c \in 1..MaxCycles, k \in 1..MaxEntities} \cap
            {ck \in (1..MaxCycles) \X (1..MaxEntities) : ck[2] \in DOMAIN Promises(ck[1])}
PromiseOf(ck) == Promises(ck[1])[ck[2]]

\* Two writes of different vehicles for one trip and date, in one cycle or in
\* two, each the only write with the time and vehicle of its observation.
SameTripStart(a, b) ==
    /\ a # b
    /\ PromiseOf(a).row.id # PromiseOf(b).row.id
    /\ PromiseOf(a).row.trip_id = PromiseOf(b).row.trip_id
    /\ PromiseOf(a).row.trip_id # ""
    /\ PromiseOf(a).date = PromiseOf(b).date
    /\ \A o \in Launched : o \notin {a, b} =>
          \A w \in {a, b} : \/ PromiseOf(o).row.time # PromiseOf(w).row.time
                             \/ PromiseOf(o).row.id # PromiseOf(w).row.id

\* C33: when two vehicles of one poll or of two overlapping polls report the
\* same trip, the check-then-insert steps leave one trip start for the date
\* and trip, and neither write fails: every poll involved completes without
\* error (a poll of theirs that rejects does so for the write of another
\* observation).
C33_ConcurrentStartsComplete ==
    /\ KeyUnique(block_data)
    /\ \A a, b \in Launched :
          SameTripStart(a, b) =>
              /\ PromiseOf(a).stage # "rejected"
              /\ cycles[a[1]].pc = "rejected" =>
                    \E o \in Launched \ {a, b} :
                        o[1] = a[1] /\ PromiseOf(o).stage = "rejected"


(***************************************************************************)
(* The order of the counts                                                 *)
(***************************************************************************)
CountsInOrder(counts, includeCanceled) ==
    /\ 0 <= counts.onTimeTrips
    /\ counts.onTimeTrips <= counts.evaluatedTrips
    /\ counts.evaluatedTrips <= counts.totalScheduled
    /\ counts.canceledTrips <= counts.totalScheduled
    /\ ~includeCanceled =>
          counts.evaluatedTrips + counts.canceledTrips <= counts.totalScheduled

RECURSIVE ScheduledOfRoutes(_, _)
ScheduledOfRoutes(routes, keys) ==
    IF keys = {} THEN 0
    ELSE LET k == CHOOSE x \in keys : TRUE
         IN routes[k].counts.totalScheduled + ScheduledOfRoutes(routes, keys \ {k})

\* The counts of every aggregate of a day and of the response made from it.
CountsOfDay(dayAgg) ==
    {dayAgg.overall.counts}
        \cup {dayAgg.routes[k].counts : k \in DOMAIN dayAgg.routes}
        \cup {dayAgg.buckets[l].counts : l \in BucketLabels}
CountsOfResponse(percents) ==
    {percents.overall.counts}
        \cup {percents.routeSummary[i].counts : i \in DOMAIN percents.routeSummary}
        \cup {percents.routes[k].counts : k \in DOMAIN percents.routes}
        \cup {percents.routesCombined[r].counts : r \in DOMAIN percents.routesCombined}
        \cup {percents.timeOfDay[l].counts : l \in BucketLabels}

\* C34: in every aggregate, of a day and after merging,
\* 0 <= onTimeTrips <= evaluatedTrips <= totalScheduled and
\* canceledTrips <= totalScheduled; without includeCanceled,
\* evaluatedTrips + canceledTrips <= totalScheduled; and the totalScheduled of
\* the (route, direction) aggregates add up to that of overall.
C34_CountsInOrder ==
    /\ Aggregated =>
          /\ \A counts \in CountsOfDay(apiCall.dayAgg) \cup CountsOfResponse(apiCall.percents) :
                CountsInOrder(counts, apiCall.includeCanceled)
          /\ ScheduledOfRoutes(apiCall.dayAgg.routes, DOMAIN apiCall.dayAgg.routes)
                = apiCall.dayAgg.overall.counts.totalScheduled
          /\ ScheduledOfRoutes(apiCall.percents.routes, DOMAIN apiCall.percents.routes)
                = MergedDay(apiCall.dayAgg).overall.counts.totalScheduled
    /\ Merged =>
          ( (\A i \in DOMAIN apiCall.perDay : CountsInOrder(apiCall.perDay[i].counts, FALSE))
            => CountsInOrder(apiCall.merged.counts, FALSE) )

\* A day of two routes without includeCanceled: a canceled trip that was
\* observed and a trip that was on time.
C34_Witness ==
    /\ Aggregated
    /\ ~apiCall.includeCanceled
    /\ Cardinality(DOMAIN apiCall.dayAgg.routes) = 2
    /\ apiCall.dayAgg.overall.counts =
          [totalScheduled |-> 2, evaluatedTrips |-> 1, onTimeTrips |-> 1,
           canceledTrips |-> 1]
    /\ \E i \in DOMAIN apiCall.trips :
          /\ apiCall.trips[i].schedule_relationship # NULL
          /\ apiCall.trips[i].avg_delay_min # NULL


(***************************************************************************)
(* The delays of evaluated trips                                           *)
(***************************************************************************)
AggregatesOfDay(dayAgg) ==
    {dayAgg.overall}
        \cup {dayAgg.routes[k] : k \in DOMAIN dayAgg.routes}
        \cup {dayAgg.buckets[l] : l \in BucketLabels}

\* C35: without includeCanceled a canceled trip adds to totalScheduled and
\* canceledTrips only: in every aggregate the delay list holds at most
\* evaluatedTrips values, so the delay statistics come from evaluated trips
\* only.
C35_DelaysOfEvaluatedTrips ==
    (Aggregated /\ ~apiCall.includeCanceled) =>
        \A agg \in AggregatesOfDay(apiCall.dayAgg) :
            Len(agg.delays) <= agg.counts.evaluatedTrips


(***************************************************************************)
(* The recorded time of an observation                                     *)
(***************************************************************************)
Stamped == apiCall.called /\ apiCall.op = "timestampToTimeString"

\* C36: the recorded time of an observation is the offset of the feed's
\* timestamp from the local midnight of the observation's service date (the
\* trip's start date, the current service date without a trip): 24 hours are
\* added exactly when the timestamp is on the calendar day after the service
\* date, also at a poll just after midnight with a timestamp from just before
\* midnight.
C36_OffsetFromServiceDate ==
    Stamped =>
        /\ timeToMinutes(apiCall.result) = apiCall.timestamp - apiCall.date
        /\ (apiCall.result[1] >= 24) <=>
              (getDate(apiCall.timestamp) = getDate(apiCall.date) + 1)


(***************************************************************************)
(* The actual end time of a trip                                           *)
(***************************************************************************)
Detailed == apiCall.called /\ apiCall.op = "tripDetail"

\* The minutes since the observation whose recorded time is actual_end_time,
\* a time of day counted from the midnight of the service date.
MinutesSinceObserved ==
    now - (apiCall.date + timeToMinutes(apiCall.row.actual_end_time))

\* C37: actualEndTime is not null only if the trip has no next stop, or its
\* last observation is more than 30 minutes older than now, or the service
\* date asked for is not the current one; so between 00:00 and 02:59 a trip
\* of the current service day with a next stop, observed within the last 30
\* minutes at a time of 24:00 or later, has no actualEndTime.
C37_EndTimeOnlyWhenOver ==
    (Detailed /\ apiCall.detail.actualEndTime # NULL) =>
        \/ apiCall.row.next_stop_id = ""
        \/ MinutesSinceObserved > 30
        \/ apiCall.date # getDateFromTimestamp(now)


(***************************************************************************)
(* What a finished sweep leaves in the cache                               *)
(***************************************************************************)
\* The dates of the observations a sweep has to warm: not the current
\* service date, with a schedule version and a service id.
DatesToWarm ==
    {d \in getAllServiceDays :
        /\ d # toDateString(getDateFromTimestamp(now))
        /\ getGtfsVersion(DateAt(d)).defined
        /\ getServiceIds(getGtfsVersion(DateAt(d)).version, d) # {}}

\* C38: after a sweep that ran to its end, every date of the observations
\* that is not the current service date and has a schedule version and a
\* valid service id has a base cache entry (avgObserved, threshold 5,
\* includeCanceled false, no filters): the request of the sweep reaches the
\* computation.
C38_SweepFillsCache ==
    [][SweepStep =>
          \A d \in DatesToWarm :
              \E r \in cache' : r.key = CacheKey(DateAt(d), "avgObserved",
                                                 DefaultThreshold, FALSE, "", "")]_vars


(***************************************************************************)
(* The end of the walk over earlier days                                   *)
(***************************************************************************)
Walking ==
    apiCall.called /\ apiCall.op = "cancellationWalk" /\ apiCall.pc = "loop"
WalkReplied ==
    apiCall.called /\ apiCall.op = "cancellationWalk" /\ apiCall.pc = "replied"
\* The day the last pass of a call looked at.
LastDayVisited == apiCall.dayOnlyDate - (apiCall.daysBack - 1) * MinutesPerDay

\* C39: the walk of cancellationStreak ends for every stored history: every
\* request that enters the loop is answered, no pass goes on after three
\* consecutive days without a matching trip set, so the walk never looks
\* further back than three days before the import date of the first
\* version, and this holds when it walks back past that date.
C39_WalkEnds ==
    /\ [](Walking => /\ apiCall.daysNotAvailable <= 2
                      /\ apiCall.daysNotCancelled = 0
                      /\ apiCall.daysBack \in WalkDays)
    /\ []((Walking \/ WalkReplied) =>
              \E r \in gtfs_versions :
                  toDateString(LastDayVisited) >= r.import_date - 3)
    /\ (Walking ~> WalkReplied)

\* C39 witness: a walk that went back past the import date of the first
\* version over canceled days and was answered with its count.
C39_Witness ==
    /\ WalkReplied
    /\ apiCall.statusCode = 200
    /\ apiCall.daysCanceled >= 2
    /\ apiCall.daysNotAvailable = 3
    /\ ~getGtfsVersion(LastDayVisited).defined


(***************************************************************************)
(* The times an import gives the trips of its version                      *)
(***************************************************************************)
\* The lines of a trip in stop_times.txt, by their place in the file.
LinesOf(stopTimes, tripId) ==
    {i \in 1..Len(stopTimes) : stopTimes[i].trip_id = tripId}
FirstLine(stopTimes, tripId) ==
    CHOOSE i \in LinesOf(stopTimes, tripId) : \A j \in LinesOf(stopTimes, tripId) : i <= j
LastLine(stopTimes, tripId) ==
    CHOOSE i \in LinesOf(stopTimes, tripId) : \A j \in LinesOf(stopTimes, tripId) : j <= i
\* The rows of the versions up to one, in every table of the schedule.
RowsUpTo(version, versions, cal, dates, trips, stopRows) ==
    <<{r \in versions : r.version <= version},
      {r \in cal : r.gtfs_version <= version},
      {r \in dates : r.gtfs_version <= version},
      {r \in trips : r.gtfs_version <= version},
      {r \in stopRows : r.gtfs_version <= version}>>

\* C40: after importGtfs every trip of the new version that has stop times,
\* the last trip listed in stop_times.txt included, has as start_time the
\* departure of its first listed stop and as end_time the departure of its
\* last listed stop; the new version number is one more than the highest
\* before; and the rows of the earlier versions are as they were.
C40_ImportSetsTimes ==
    [][\A stopTimes \in FeedStopTimes :
          importGtfs(LastVersion + 1, FeedTrips, stopTimes) =>
              /\ \E r \in gtfs_versions' \ gtfs_versions :
                    /\ r.version = LastVersion + 1
                    /\ \A o \in gtfs_versions' : o.version <= r.version
              /\ \A i \in 1..Len(stopTimes) :
                    \E b \in blocks' :
                        /\ b.gtfs_version = LastVersion + 1
                        /\ b.trip_id = stopTimes[i].trip_id
                        /\ b.start_time =
                              stopTimes[FirstLine(stopTimes, b.trip_id)].departure_time
                        /\ b.end_time =
                              stopTimes[LastLine(stopTimes, b.trip_id)].departure_time
              /\ RowsUpTo(LastVersion, gtfs_versions', calendar', calendar_dates',
                          blocks', stops')
                    = <<gtfs_versions, calendar, calendar_dates, blocks, stops>>]_vars

====
